---- MODULE Spec2Model ----
(***************************************************************************)
(* Model of the AI gateway of nerdbot (convex/lib/ai.ts, final revision):   *)
(* generateResponse and the four callers it dispatches to.  One invocation  *)
(* of generateResponse is modelled at the granularity of its HTTP awaits:   *)
(* Generate runs the code up to the first fetch, and every Receive* action  *)
(* runs the code from the arrival of one HTTP response up to the next       *)
(* fetch, the return or the throw.                                          *)
(***************************************************************************)
EXTENDS Integers, Sequences, FiniteSets, TLC

\* ---------------------------------------------------------------- bounds
\* Largest number of tool invocations one provider turn carries.
MaxToolCalls == 2
\* Largest number of ConversationMessages the caller passes in.
MaxMessages == 2
\* Largest number of webhook requests delivered in one behaviour.
MaxDeliveries == 2

\* ------------------------------------------------------- program constants
MAX_TOOL_ITERATIONS == 5
\* truncateResponse: maxLength = 4000
MaxResponseLength == 4000
\* evaluateRateLimit: windowMs = 60_000
WindowMs == 60000
\* checkRateLimit: args.maxPerMinute ?? 10
DefaultMaxPerMinute == 10

\* ------------------------------------------------------------ value domains
\* JS undefined for an optional number (usage?.prompt_tokens).
undefined == -1
\* JS null for message.content (string | null).
Null == "<null>"

Providers == {"claude", "moonshot", "grok", "openai", "unknown-provider"}
ThinkingMode == {"disabled", "enabled", "auto"}
\* options?.webSearch and options?.thinking; "unset" stands for an omitted
\* options object or an omitted field (both read as undefined).
WebSearchInputs == {"unset", "false", "true"}
ThinkingInputs == {"unset", "auto"}
SystemPrompts == {"prompt"}
\* the apiKey and model arguments of the invocation
ApiKey == "key"
Model == "model"
ErrorStatuses == {429, 500}
Texts == {"answer"}
\* usage objects of a provider response; an omitted usage object reads the
\* same as one with both fields omitted (data.usage?.prompt_tokens).
Usages ==
    { [prompt_tokens |-> undefined, completion_tokens |-> undefined],
      [prompt_tokens |-> 1, completion_tokens |-> 2] }
FinishReasons == {"stop", "tool_calls", "length"}

\* k-th ConversationMessage of the caller's history: user, assistant, user...
HistoryTexts == <<"m1", "m2", "m3", "m4">>
ConversationMessage(k) ==
    [role |-> IF k % 2 = 1 THEN "user" ELSE "assistant",
     content |-> HistoryTexts[((k - 1) % 4) + 1]]
\* the caller's histories tried: the empty one and the longest one
MessageLists ==
    { [k \in 1..n |-> ConversationMessage(k)] : n \in {0, MaxMessages} }

\* k-th tool invocation of a turn (OpenAIToolCall).
CallIds == <<"call_1", "call_2", "call_3", "call_4">>
CallNames == <<"$web_search", "$fetch", "$web_search", "$fetch">>
CallArguments == <<"{q1}", "{q2}", "{q3}", "{q4}">>
OpenAIToolCall(k) ==
    [id |-> CallIds[((k - 1) % 4) + 1],
     type |-> "function",
     function |-> [name |-> CallNames[((k - 1) % 4) + 1],
                   arguments |-> CallArguments[((k - 1) % 4) + 1]]]
\* the tool_calls lists tried: empty, a single invocation, the longest one
ToolCallLists ==
    { [k \in 1..n |-> OpenAIToolCall(k)] : n \in {0, 1, MaxToolCalls} }

\* ------------------------------------------------------- provider responses
\* A fetch Response: ok/status, and for a success the parsed JSON body.
\* choices is the OpenAI-chat list (at most its first element is read),
\* has_tool_calls tells whether message.tool_calls is present.
HttpFailures ==
    { [ok |-> FALSE, status |-> s] : s \in ErrorStatuses }

Choice(fr, c, has, tcs) ==
    [finish_reason |-> fr,
     message |-> [content |-> c, has_tool_calls |-> has, tool_calls |-> tcs]]

ChatChoices ==
    { Choice(fr, c, FALSE, <<>>) : fr \in FinishReasons, c \in {Null} \cup Texts }
    \cup { Choice("tool_calls", Null, TRUE, tcs) : tcs \in ToolCallLists }

OpenAIAPIResponses ==
    { [ok |-> TRUE, status |-> 200, choices |-> <<>>, usage |-> u] : u \in Usages }
    \cup { [ok |-> TRUE, status |-> 200, choices |-> <<ch>>, usage |-> u] :
             ch \in ChatChoices, u \in Usages }

\* usage of the Claude dialect: input_tokens / output_tokens
ClaudeUsages ==
    { [input_tokens |-> undefined, output_tokens |-> undefined],
      [input_tokens |-> 1, output_tokens |-> 2] }

ClaudeAPIResponses ==
    { [ok |-> TRUE, status |-> 200, content |-> c, usage |-> u] :
        c \in {<<>>} \cup { <<[text |-> t]>> : t \in Texts }, u \in ClaudeUsages }

\* Responses-API output items: a message item carries its output_text list.
MessageOutput(t) == [type |-> "message", content |-> <<[type |-> "output_text", text |-> t]>>]
EmptyMessageOutput == [type |-> "message", content |-> <<>>]
WebSearchOutput == [type |-> "web_search_call", content |-> <<>>]
OutputLists ==
    { <<>>,
      <<WebSearchOutput>>,
      <<EmptyMessageOutput>>,
      <<MessageOutput("answer")>>,
      <<WebSearchOutput, MessageOutput("answer")>>,
      <<WebSearchOutput, WebSearchOutput, MessageOutput("answer")>>,
      <<MessageOutput("answer"), WebSearchOutput>>,
      <<MessageOutput("answer"), MessageOutput("second")>> }
ResponsesAPIResponses ==
    { [ok |-> TRUE, status |-> 200, output |-> o, usage |-> u] :
        o \in OutputLists, u \in Usages }

\* ----------------------------------------------------------------- state
VARIABLES
    pc,                 \* "idle" | "awaiting" (a fetch is in flight) | "done"
    callee,             \* the function generateResponse dispatched to
    provider,           \* arguments of the invocation
    options,
    messages,
    systemPrompt,
    apiMessages,        \* callMoonshotWithSearch: the transcript
    totalInputTokens,   \* callMoonshotWithSearch: running usage totals
    totalOutputTokens,
    searchQueries,      \* callMoonshotWithSearch: search trace
    i,                  \* callMoonshotWithSearch: loop counter
    fetchCalls,         \* log of the HTTP requests issued (url, body)
    responses,          \* log of the HTTP responses received
    outcomes,           \* settlements of the returned promise, in order
    env,                \* process.env.AI_THINKING as the caller last read it
    suspended,          \* the other invocation, suspended at its await
    cfg,                \* the deployment's environment variables
    now,                \* Date.now()
    messagesTable,      \* table "messages", rows in insertion order
    rateLimitsTable,    \* table "rateLimits"
    chatsTable,         \* table "chats"
    telegramCalls,      \* log of the sendMessage calls made to Telegram
    scheduled,          \* processMessage jobs handed to ctx.scheduler
    handler,            \* the webhook request being handled, and its stage
    rateLog,            \* log of the checkRateLimit calls and their answers
    job,                \* the processMessage job being run, and its stage
    cleared,            \* log of the clearChat calls: arguments, table found
    pruned,             \* log of the deleteOldMessages runs: limit, table found
    parked,             \* the other webhook request, suspended at its await
    ensured             \* log of the ensureChat calls made on their own

\* the bot around the gateway: configuration, clock, tables, logs, handlers
botVars ==
    << cfg, now, messagesTable, rateLimitsTable, chatsTable, telegramCalls,
       scheduled, handler, rateLog, job, cleared, pruned, parked, ensured >>

vars ==
    << pc, callee, provider, options, messages, systemPrompt, apiMessages,
       totalInputTokens, totalOutputTokens, searchQueries, i, fetchCalls,
       responses, outcomes, env, suspended, botVars >>

\* what lies outside the invocation that is running
hostVars == << env, suspended, botVars >>

\* one invocation of the gateway, with the env read before it and the
\* invocation suspended beside it
gatewayVars ==
    << pc, callee, provider, options, messages, systemPrompt, apiMessages,
       totalInputTokens, totalOutputTokens, searchQueries, i, fetchCalls,
       responses, outcomes, env, suspended >>

loopVars == << apiMessages, totalInputTokens, totalOutputTokens, searchQueries, i >>
argVars == << provider, options, messages, systemPrompt, callee >>

\* the local state of one invocation: its arguments and the declarations of
\* the function it runs
InvocationState ==
    [pc |-> pc, callee |-> callee, provider |-> provider, options |-> options,
     messages |-> messages, systemPrompt |-> systemPrompt,
     apiMessages |-> apiMessages, totalInputTokens |-> totalInputTokens,
     totalOutputTokens |-> totalOutputTokens, searchQueries |-> searchQueries,
     i |-> i, fetchCalls |-> fetchCalls, responses |-> responses,
     outcomes |-> outcomes]

\* an invocation that has not been made yet
IdleInvocation ==
    [pc |-> "idle", callee |-> "none", provider |-> "none",
     options |-> [webSearch |-> "unset", thinking |-> "unset"],
     messages |-> <<>>, systemPrompt |-> "", apiMessages |-> <<>>,
     totalInputTokens |-> 0, totalOutputTokens |-> 0, searchQueries |-> <<>>,
     i |-> 0, fetchCalls |-> <<>>, responses |-> <<>>, outcomes |-> <<>>]

\* ----------------------------------------------------- environment values
\* process.env[name] of a variable that is not set
EnvUnset == <<"undefined">>

\* A raw value of process.env.AI_THINKING is the sequence of its characters.
Disabled == <<"d", "i", "s", "a", "b", "l", "e", "d">>
Enabled == <<"e", "n", "a", "b", "l", "e", "d">>
Auto == <<"a", "u", "t", "o">>

EnvValues ==
    { EnvUnset, <<>>, Disabled, Enabled, Auto,
      <<" ", " ", "D", "I", "S", "A", "B", "L", "E", "D", " ", " ">>,
      <<"A", "u", "t", "o">>,
      <<"\t", "e", "n", "a", "b", "l", "e", "d">>,
      <<"m", "a", "y", "b", "e">>,
      <<"a", "u", "t", "o", "1">>,
      <<" ">> }

WhiteSpace == {" ", "\t", "\n"}

UpperCase ==
    <<"A", "B", "C", "D", "E", "F", "G", "H", "I", "J", "K", "L", "M",
      "N", "O", "P", "Q", "R", "S", "T", "U", "V", "W", "X", "Y", "Z">>

LowerCase ==
    <<"a", "b", "c", "d", "e", "f", "g", "h", "i", "j", "k", "l", "m",
      "n", "o", "p", "q", "r", "s", "t", "u", "v", "w", "x", "y", "z">>

\* String.prototype.trim
RECURSIVE trimStart(_)
trimStart(s) ==
    IF s # <<>> /\ Head(s) \in WhiteSpace THEN trimStart(Tail(s)) ELSE s

RECURSIVE trimEnd(_)
trimEnd(s) ==
    IF s # <<>> /\ s[Len(s)] \in WhiteSpace
    THEN trimEnd(SubSeq(s, 1, Len(s) - 1)) ELSE s

trim(s) == trimEnd(trimStart(s))

\* String.prototype.toLowerCase
toLowerCase(s) ==
    [k \in 1..Len(s) |->
        IF \E n \in 1..Len(UpperCase) : UpperCase[n] = s[k]
        THEN LowerCase[CHOOSE n \in 1..Len(UpperCase) : UpperCase[n] = s[k]]
        ELSE s[k]]

\* the ThinkingMode a normalized value spells, "unset" if none
ModeOf(normalized) ==
    CASE normalized = Disabled -> "disabled"
      [] normalized = Enabled -> "enabled"
      [] normalized = Auto -> "auto"
      [] OTHER -> "unset"

\* Mutant: a value that spells no mode is read as undefined, without a throw.
readOptionalThinkingEnvLenient(value) ==
    IF value = EnvUnset \/ value = <<>>
    THEN [threw |-> FALSE, value |-> "unset"]
    ELSE [threw |-> FALSE, value |-> ModeOf(toLowerCase(trim(value)))]

\* readOptionalThinkingEnv(name), given the value of process.env[name]:
\* what it returns ("unset" for undefined), or that it threw
readOptionalThinkingEnv(value) ==
    IF value = EnvUnset \/ value = <<>>
    THEN [threw |-> FALSE, value |-> "unset"]
    ELSE LET normalized == toLowerCase(trim(value)) IN
         IF normalized \in {Disabled, Enabled, Auto}
         THEN [threw |-> FALSE, value |-> ModeOf(normalized)]
         ELSE [threw |-> TRUE, value |-> "unset"]

\* ------------------------------------------------------ strings of the bot
\* Texts, names and allowlists are sequences of characters, like the values
\* of the environment above.
Digits == <<"0", "1", "2", "3", "4", "5", "6", "7", "8", "9">>

\* String(n) for an integer n
RECURSIVE DecimalOf(_)
DecimalOf(n) ==
    IF n < 10 THEN <<Digits[n + 1]>>
    ELSE DecimalOf(n \div 10) \o <<Digits[(n % 10) + 1]>>

NumberToString(n) == IF n < 0 THEN <<"-">> \o DecimalOf(0 - n) ELSE DecimalOf(n)

\* Number(s) for a string of decimal digits; Number("") is 0
RECURSIVE StringToNumber(_)
StringToNumber(s) ==
    IF s = <<>> THEN 0
    ELSE 10 * StringToNumber(SubSeq(s, 1, Len(s) - 1))
           + ((CHOOSE d \in 1..10 : Digits[d] = s[Len(s)]) - 1)

\* s.startsWith(prefix)
startsWith(s, prefix) ==
    /\ Len(prefix) <= Len(s)
    /\ SubSeq(s, 1, Len(prefix)) = prefix

\* s.includes(part)
includes(s, part) ==
    \E k \in 1..(Len(s) - Len(part) + 1) : SubSeq(s, k, k + Len(part) - 1) = part

\* s.split(sep) for a separator of one character
RECURSIVE split(_, _)
split(s, sep) ==
    IF \E k \in 1..Len(s) : s[k] = sep
    THEN LET k == CHOOSE n \in 1..Len(s) :
                      s[n] = sep /\ \A m \in 1..(n - 1) : s[m] # sep
         IN <<SubSeq(s, 1, k - 1)>> \o split(SubSeq(s, k + 1, Len(s)), sep)
    ELSE <<s>>

\* a character of the class \w
WordChar(c) ==
    \/ \E n \in 1..Len(UpperCase) : c = UpperCase[n] \/ c = LowerCase[n]
    \/ \E d \in 1..10 : c = Digits[d]
    \/ c = "_"

\* ids.includes(String(id)) after allowlist.split(",").map(trim)
ListedIn(id, allowlist) ==
    LET ids == split(allowlist, ",") IN
    \E k \in 1..Len(ids) : trim(ids[k]) = NumberToString(id)

\* Mutant: an empty allowlist lets everybody in.
isAllowedUserOpenByDefault(userId, allowlist) ==
    IF allowlist = <<>> THEN TRUE ELSE ListedIn(userId, allowlist)

\* isAllowedUser(userId, allowlist)
isAllowedUser(userId, allowlist) ==
    IF allowlist = <<>> THEN FALSE ELSE ListedIn(userId, allowlist)

\* isAllowedChat(chatId, allowlist) of helpers.ts
isAllowedChatId(chatId, allowlist) ==
    IF allowlist = <<>> THEN FALSE ELSE ListedIn(chatId, allowlist)

\* isAllowedChat(chatId, chatType, allowlist) as the webhook calls it: a
\* private chat needs no entry in ALLOWED_GROUP_IDS, a group does.
isAllowedChat(chatId, chatType, allowlist) ==
    IF chatType = "private" THEN TRUE ELSE isAllowedChatId(chatId, allowlist)

\* Mutant: every message counts as a trigger.
shouldRespondAlways(chatType, messageText, botUsername, isReplyToBot) == TRUE

\* shouldRespond(chatType, messageText, botUsername, isReplyToBot)
shouldRespond(chatType, messageText, botUsername, isReplyToBot) ==
    LET isPrivateChat == chatType = "private"
        isMentioned == includes(messageText, <<"@">> \o botUsername)
        isCommand == startsWith(messageText, <<"/">>)
    IN isPrivateChat \/ isMentioned \/ isCommand \/ isReplyToBot

\* Mutant: the name of the bot is not cut off the command.
parseCommandKeepsBotName(messageText) == split(messageText, " ")[1]

\* parseCommand(messageText)
parseCommand(messageText) == split(split(messageText, " ")[1], "@")[1]

\* text.replace(new RegExp(`@${botUsername}\\b`, "gi"), "")
RECURSIVE removeMentions(_, _)
removeMentions(text, botUsername) ==
    LET n == Len(botUsername) + 1 IN
    IF text = <<>> THEN <<>>
    ELSE IF /\ Len(text) >= n
            /\ toLowerCase(SubSeq(text, 1, n)) = toLowerCase(<<"@">> \o botUsername)
            /\ WordChar(text[n]) # (Len(text) > n /\ WordChar(text[n + 1]))
         THEN removeMentions(SubSeq(text, n + 1, Len(text)), botUsername)
         ELSE <<Head(text)>> \o removeMentions(Tail(text), botUsername)

\* stripMention(text, botUsername)
stripMention(text, botUsername) == trim(removeMentions(text, botUsername))

\* formatConversation(messages)
formatConversation(rows) ==
    [k \in 1..Len(rows) |->
        [role |-> rows[k].role,
         content |->
            IF rows[k].role = "user"
            THEN <<"[">>
                    \o (IF rows[k].userName = EnvUnset
                        THEN <<"U", "n", "k", "n", "o", "w", "n">>
                        ELSE rows[k].userName)
                    \o <<"]", ":", " ">> \o rows[k].text
            ELSE rows[k].text]]

\* position of the first c in s, 0 when there is none
IndexOf(s, c) ==
    IF \E k \in 1..Len(s) : s[k] = c
    THEN CHOOSE k \in 1..Len(s) : s[k] = c /\ \A m \in 1..(k - 1) : s[m] # c
    ELSE 0

IsDigit(c) == \E d \in 1..10 : c = Digits[d]

\* length of the match of /\[\[\d+\]\]\([^)]*\)/ at the start of s, 0 for none
LinkCitationAt(s) ==
    IF Len(s) < 3 \/ s[1] # "[" \/ s[2] # "[" \/ ~IsDigit(s[3]) THEN 0
    ELSE
    LET end == CHOOSE k \in 3..Len(s) :
                    /\ \A m \in 3..k : IsDigit(s[m])
                    /\ k = Len(s) \/ ~IsDigit(s[k + 1])
        rest == SubSeq(s, end + 1, Len(s))
    IN IF Len(rest) >= 3 /\ SubSeq(rest, 1, 3) = <<"]", "]", "(">>
          /\ IndexOf(SubSeq(rest, 4, Len(rest)), ")") > 0
       THEN end + 3 + IndexOf(SubSeq(rest, 4, Len(rest)), ")")
       ELSE 0

\* length of the match of the pattern U+3010 ... U+2020 ... U+3011 (no U+3011
\* inside) at the start of s, 0 for none; the three characters are written
\* "<U+3010>", "<U+2020>" and "<U+3011>"
SourceCitationAt(s) ==
    IF s = <<>> \/ s[1] # "<U+3010>" THEN 0
    ELSE LET close == IndexOf(s, "<U+3011>") IN
         IF close > 0 /\ IndexOf(SubSeq(s, 1, close), "<U+2020>") > 0 THEN close ELSE 0

\* .replace(/\[\[\d+\]\]\([^)]*\)/g, "")
RECURSIVE removeLinkCitations(_)
removeLinkCitations(s) ==
    IF s = <<>> THEN <<>>
    ELSE IF LinkCitationAt(s) > 0
    THEN removeLinkCitations(SubSeq(s, LinkCitationAt(s) + 1, Len(s)))
    ELSE <<Head(s)>> \o removeLinkCitations(Tail(s))

\* .replace of the second citation pattern, flag g
RECURSIVE removeSourceCitations(_)
removeSourceCitations(s) ==
    IF s = <<>> THEN <<>>
    ELSE IF SourceCitationAt(s) > 0
    THEN removeSourceCitations(SubSeq(s, SourceCitationAt(s) + 1, Len(s)))
    ELSE <<Head(s)>> \o removeSourceCitations(Tail(s))

\* .replace(/ {2,}/g, " ")
RECURSIVE collapseSpaces(_)
collapseSpaces(s) ==
    IF s = <<>> THEN <<>>
    ELSE IF Len(s) >= 2 /\ s[1] = " " /\ s[2] = " " THEN collapseSpaces(Tail(s))
    ELSE <<Head(s)>> \o collapseSpaces(Tail(s))

\* stripCitations(text)
stripCitations(text) ==
    trim(collapseSpaces(removeSourceCitations(removeLinkCitations(text))))

\* truncateResponse(text, maxLength)
truncateResponse(text, maxLength) ==
    IF Len(text) > maxLength
    THEN SubSeq(text, 1, maxLength)
            \o <<"\n", "\n", "[", "t", "r", "u", "n", "c", "a", "t", "e", "d", "]">>
    ELSE text

\* buildUserName(firstName, lastName); lastName <<>> when there is none
buildUserName(firstName, lastName) ==
    firstName \o (IF lastName # <<>> THEN <<" ">> \o lastName ELSE <<>>)

\* --------------------------------------------------- the bot: its values
\* process.env.BOT_USERNAME
BotUsername ==
    <<"n", "e", "r", "d", "b", "o", "t">>

\* process.env.X ?? fallback
OrDefault(value, fallback) == IF value = EnvUnset THEN fallback ELSE value

\* how a JS condition reads a string: undefined and "" are falsy
Present(value) == value \notin {EnvUnset, <<>>}

\* The deployments tried: the variables of the README all set; no webhook
\* secret; empty allowlists; no RATE_LIMIT_PER_MINUTE.
TestConfig ==
    [deployed |-> TRUE,
     TELEGRAM_WEBHOOK_SECRET |-> "s3cret",
     ALLOWED_USER_IDS |-> <<"1", ",", " ", "2">>,
     ALLOWED_GROUP_IDS |-> <<"1", "0", "0", ",", "2", "0", "0">>,
     RATE_LIMIT_PER_MINUTE |-> <<"1">>,
     TELEGRAM_BOT_TOKEN |-> <<"t", "o", "k">>,
     AI_API_KEY |-> <<"k", "e", "y">>,
     AI_PROVIDER |-> "<undefined>",
     WEB_SEARCH |-> "<undefined>",
     MAX_CONTEXT_MESSAGES |-> EnvUnset,
     MAX_RETAINED_MESSAGES |-> EnvUnset]

Configs ==
    { TestConfig,
      [TestConfig EXCEPT !.TELEGRAM_WEBHOOK_SECRET = "<undefined>"],
      [TestConfig EXCEPT !.ALLOWED_USER_IDS = <<>>, !.ALLOWED_GROUP_IDS = EnvUnset],
      [TestConfig EXCEPT !.RATE_LIMIT_PER_MINUTE = EnvUnset] }

\* request.headers.get("x-telegram-bot-api-secret-token"); Null without header
SecretHeaders == {Null, "s3cret", "wrong"}

\* message.chat and message.from of the updates tried
GroupChat == [id |-> 100, type |-> "group", title |-> "Test Group"]
OtherGroupChat == [id |-> 999, type |-> "supergroup", title |-> "Elsewhere"]
PrivateChat(id) == [id |-> id, type |-> "private", title |-> Null]
Alice == [id |-> 1, first_name |-> <<"A", "l">>, last_name |-> <<"B">>]
Stranger == [id |-> 999, first_name |-> <<"S">>, last_name |-> <<>>]

Senders ==
    { <<GroupChat, Alice>>, <<GroupChat, Stranger>>, <<OtherGroupChat, Alice>>,
      <<PrivateChat(1), Alice>>, <<PrivateChat(999), Stranger>> }

\* message.text; NoText for a message without text (a photo, a sticker)
NoText == EnvUnset
ChatterText ==
    <<"h", "i", " ", "a", "l", "l">>
MentionText ==
    <<"@", "n", "e", "r", "d", "b", "o", "t", " ", "h", "i">>
HelpCommand ==
    <<"/", "h", "e", "l", "p">>
ResetCommand ==
    <<"/", "r", "e", "s", "e", "t", "@", "n", "e", "r", "d", "b", "o", "t">>
MessageTexts == {NoText, ChatterText, MentionText, HelpCommand, ResetCommand}

\* message.message_thread_id; undefined outside forum topics
ThreadIds == {undefined, 42}
MessageId == 7

\* the bodies of the webhook requests tried
BadJson == [json |-> FALSE]
EmptyUpdate == [json |-> TRUE, hasMessage |-> FALSE]
Updates ==
    { [json |-> TRUE, hasMessage |-> TRUE,
       message |-> [chat |-> sender[1], from |-> sender[2], text |-> text,
                    message_id |-> MessageId, message_thread_id |-> thread]] :
        sender \in Senders, text \in MessageTexts, thread \in ThreadIds }

WebhookRequests ==
    { [header |-> h, body |-> b] :
        h \in SecretHeaders, b \in {BadJson, EmptyUpdate} \cup Updates }

\* the texts the bot sends by itself (the help text is its first sentence)
HelpText ==
    <<"H", "i", "!", " ", "I", "'", "m", " ", "a", "n", " ", "A", "I", " ",
      "a", "s", "s", "i", "s", "t", "a", "n", "t", ".", " ", "M", "e", "n",
      "t", "i", "o", "n", " ", "m", "e", " ", "w", "i", "t", "h", " ", "@",
      "n", "e", "r", "d", "b", "o", "t", " ", "t", "o", " ", "c", "h", "a",
      "t", ".">>
ClearedText ==
    <<"C", "o", "n", "v", "e", "r", "s", "a", "t", "i", "o", "n", " ", "h",
      "i", "s", "t", "o", "r", "y", " ", "c", "l", "e", "a", "r", "e", "d",
      ".">>
TooFastText ==
    <<"Y", "o", "u", "'", "r", "e", " ", "s", "e", "n", "d", "i", "n", "g",
      " ", "m", "e", "s", "s", "a", "g", "e", "s", " ", "t", "o", "o", " ",
      "f", "a", "s", "t", ".", " ", "P", "l", "e", "a", "s", "e", " ", "w",
      "a", "i", "t", " ", "a", " ", "m", "o", "m", "e", "n", "t", ".">>
ApologyText ==
    <<"S", "o", "r", "r", "y", ",", " ", "I", " ", "e", "n", "c", "o", "u",
      "n", "t", "e", "r", "e", "d", " ", "a", "n", " ", "e", "r", "r", "o",
      "r", " ", "p", "r", "o", "c", "e", "s", "s", "i", "n", "g", " ", "t",
      "h", "a", "t", " ", "m", "e", "s", "s", "a", "g", "e", ".", " ", "P",
      "l", "e", "a", "s", "e", " ", "t", "r", "y", " ", "a", "g", "a", "i",
      "n", ".">>

\* ------------------------------------------------- the bot: its mutations
\* null, where a record is expected
NoRecord == [none |-> TRUE]

\* Mutant: the window is over as soon as windowMs has passed (>= for >).
evaluateRateLimitEarlyReset(existing, at, maxPerMinute, windowMs) ==
    IF existing = NoRecord
    THEN [allowed |-> TRUE, update |-> NoRecord,
          insert |-> [windowStart |-> at, count |-> 1]]
    ELSE IF at - existing.windowStart >= windowMs
    THEN [allowed |-> TRUE, update |-> [windowStart |-> at, count |-> 1],
          insert |-> NoRecord]
    ELSE IF existing.count >= maxPerMinute
    THEN [allowed |-> FALSE, update |-> NoRecord, insert |-> NoRecord]
    ELSE [allowed |-> TRUE,
          update |-> [windowStart |-> existing.windowStart,
                      count |-> existing.count + 1],
          insert |-> NoRecord]

\* Mutant: a denied request is counted too.
evaluateRateLimitCountsDenied(existing, at, maxPerMinute, windowMs) ==
    IF existing = NoRecord
    THEN [allowed |-> TRUE, update |-> NoRecord,
          insert |-> [windowStart |-> at, count |-> 1]]
    ELSE IF at - existing.windowStart > windowMs
    THEN [allowed |-> TRUE, update |-> [windowStart |-> at, count |-> 1],
          insert |-> NoRecord]
    ELSE [allowed |-> existing.count < maxPerMinute,
          update |-> [windowStart |-> existing.windowStart,
                      count |-> existing.count + 1],
          insert |-> NoRecord]

\* Mutant: a new window goes on from the old count instead of 1.
evaluateRateLimitResetKeepsCount(existing, at, maxPerMinute, windowMs) ==
    IF existing = NoRecord
    THEN [allowed |-> TRUE, update |-> NoRecord,
          insert |-> [windowStart |-> at, count |-> 1]]
    ELSE IF at - existing.windowStart > windowMs
    THEN [allowed |-> TRUE,
          update |-> [windowStart |-> at, count |-> existing.count + 1],
          insert |-> NoRecord]
    ELSE IF existing.count >= maxPerMinute
    THEN [allowed |-> FALSE, update |-> NoRecord, insert |-> NoRecord]
    ELSE [allowed |-> TRUE,
          update |-> [windowStart |-> existing.windowStart,
                      count |-> existing.count + 1],
          insert |-> NoRecord]

\* evaluateRateLimit(existing, now, maxPerMinute, windowMs)
evaluateRateLimit(existing, at, maxPerMinute, windowMs) ==
    IF existing = NoRecord
    THEN [allowed |-> TRUE, update |-> NoRecord,
          insert |-> [windowStart |-> at, count |-> 1]]
    ELSE IF at - existing.windowStart > windowMs
    THEN [allowed |-> TRUE, update |-> [windowStart |-> at, count |-> 1],
          insert |-> NoRecord]
    ELSE IF existing.count >= maxPerMinute
    THEN [allowed |-> FALSE, update |-> NoRecord, insert |-> NoRecord]
    ELSE [allowed |-> TRUE,
          update |-> [windowStart |-> existing.windowStart,
                      count |-> existing.count + 1],
          insert |-> NoRecord]

\* Mutant: the record is looked up by userId alone.
RateRowsByUser(table, chatId, userId) ==
    { row \in table : row.userId = userId }

\* ctx.db.query("rateLimits").withIndex("by_chat_user", eq chatId, eq userId)
RateRows(table, chatId, userId) ==
    { row \in table : row.chatId = chatId /\ row.userId = userId }

\* checkRateLimit({chatId, userId, maxPerMinute}) run at time at: the table
\* it leaves and the value it returns; .unique() throws on a second row
checkRateLimit(table, chatId, userId, maxPerMinute, at) ==
    LET rows == RateRows(table, chatId, userId) IN
    IF Cardinality(rows) > 1
    THEN [threw |-> TRUE, allowed |-> FALSE, table |-> table, existing |-> NoRecord]
    ELSE
    LET existing == IF rows = {} THEN NoRecord ELSE CHOOSE row \in rows : TRUE
        result ==
            evaluateRateLimit(
                IF existing = NoRecord THEN NoRecord
                ELSE [windowStart |-> existing.windowStart, count |-> existing.count],
                at,
                IF maxPerMinute = undefined THEN DefaultMaxPerMinute ELSE maxPerMinute,
                WindowMs)
    IN [threw |-> FALSE,
        allowed |-> result.allowed,
        existing |-> existing,
        table |->
            IF result.insert # NoRecord
            THEN table \cup {[chatId |-> chatId, userId |-> userId,
                              windowStart |-> result.insert.windowStart,
                              count |-> result.insert.count]}
            ELSE IF result.update # NoRecord /\ existing # NoRecord
            THEN (table \ {existing})
                    \cup {[existing EXCEPT !.windowStart = result.update.windowStart,
                                           !.count = result.update.count]}
            ELSE table]

\* what a call of checkRateLimit was given, found, answered and left
RateLogEntry(chatId, userId, maxPerMinute, at, outcome) ==
    [chatId |-> chatId, userId |-> userId, maxPerMinute |-> maxPerMinute,
     at |-> at, allowed |-> outcome.allowed,
     existing |-> IF outcome.existing = NoRecord THEN NoRecord
                  ELSE [windowStart |-> outcome.existing.windowStart,
                        count |-> outcome.existing.count],
     left |-> LET rows == RateRows(outcome.table, chatId, userId) IN
              IF Cardinality(rows) # 1 THEN NoRecord
              ELSE LET row == CHOOSE r \in rows : TRUE IN
                   [windowStart |-> row.windowStart, count |-> row.count]]

\* store(args): ctx.db.insert("messages", {...args, timestamp: Date.now()})
store(table, args, at) ==
    Append(table,
           [chatId |-> args.chatId, messageThreadId |-> args.messageThreadId,
            userId |-> args.userId, userName |-> args.userName,
            role |-> args.role, text |-> args.text,
            telegramMessageId |-> args.telegramMessageId, timestamp |-> at])

\* the rows of index by_chat for eq chatId, eq messageThreadId, in index order
\* (rows are inserted with the clock's time, so insertion order is that order)
ByChat(table, chatId, messageThreadId) ==
    LET InChat(row) == row.chatId = chatId /\ row.messageThreadId = messageThreadId
    IN SelectSeq(table, InChat)

\* getRecent({chatId, messageThreadId, limit}): order desc, take, reverse
getRecent(table, chatId, messageThreadId, limit) ==
    LET rows == ByChat(table, chatId, messageThreadId) IN
    IF Len(rows) <= limit THEN rows
    ELSE SubSeq(rows, Len(rows) - limit + 1, Len(rows))

\* Mutant: every message of the chat is deleted, whatever its thread.
clearChatAllThreads(table, chatId, messageThreadId) ==
    LET Kept(row) == row.chatId # chatId IN SelectSeq(table, Kept)

\* clearChat({chatId, messageThreadId})
clearChat(table, chatId, messageThreadId) ==
    LET Kept(row) == ~(row.chatId = chatId /\ row.messageThreadId = messageThreadId)
    IN SelectSeq(table, Kept)

\* `${msg.chatId}:${String(msg.messageThreadId ?? "none")}`
groupKey(msg) ==
    NumberToString(msg.chatId) \o <<":">>
        \o (IF msg.messageThreadId = undefined THEN <<"n", "o", "n", "e">>
            ELSE NumberToString(msg.messageThreadId))

\* groups.get(key): the positions in allMessages of the messages pushed to
\* the group, in the order pushed
groupOf(allMessages, key) ==
    LET InGroup(k) == groupKey(allMessages[k]) = key
    IN SelectSeq([k \in 1..Len(allMessages) |-> k], InGroup)

\* Mutant: the group is left in the order collected, oldest first.
sortSkipped(allMessages, msgs) == msgs

\* msgs.sort((a, b) => b.timestamp - a.timestamp): a stable sort, so of two
\* messages of one timestamp the one pushed first stays first
RECURSIVE sortNewestFirst(_, _)
sortNewestFirst(allMessages, msgs) ==
    IF msgs = <<>> THEN <<>>
    ELSE LET sorted == sortNewestFirst(allMessages, SubSeq(msgs, 1, Len(msgs) - 1))
             last == msgs[Len(msgs)]
             NotOlder(k) == allMessages[k].timestamp >= allMessages[last].timestamp
             ahead == Len(SelectSeq(sorted, NotOlder))
         IN SubSeq(sorted, 1, ahead) \o <<last>> \o SubSeq(sorted, ahead + 1, Len(sorted))

\* msgs.slice(start) for a start that is not negative
slice(msgs, start) == SubSeq(msgs, start + 1, Len(msgs))

\* deleteOldMessages({}): the table it leaves
deleteOldMessages(allMessages, maxRetained) ==
    LET keys == { groupKey(allMessages[k]) : k \in 1..Len(allMessages) }
        toDelete(key) == slice(sortNewestFirst(allMessages, groupOf(allMessages, key)),
                               maxRetained)
        deleted == UNION { { toDelete(key)[k] : k \in 1..Len(toDelete(key)) }
                           : key \in keys }
        Kept(k) == k \notin deleted
        kept == SelectSeq([k \in 1..Len(allMessages) |-> k], Kept)
    IN [k \in 1..Len(kept) |-> allMessages[kept[k]]]

\* Mutant: a record is inserted whether or not the chat has one.
ensureChatInsertsAgain(table, chatId, chatTitle, at) ==
    table \cup {[chatId |-> chatId, chatTitle |-> chatTitle,
                 enabled |-> TRUE, createdAt |-> at]}

\* ensureChat({chatId, chatTitle}) run at time at: the table it leaves
ensureChat(table, chatId, chatTitle, at) ==
    LET rows == { row \in table : row.chatId = chatId } IN
    IF rows = {}
    THEN table \cup {[chatId |-> chatId, chatTitle |-> chatTitle,
                      enabled |-> TRUE, createdAt |-> at]}
    ELSE IF Cardinality(rows) > 1 THEN table
    ELSE LET existing == CHOOSE row \in rows : TRUE IN
         IF chatTitle \notin {Null, ""} /\ chatTitle # existing.chatTitle
         THEN (table \ {existing}) \cup {[existing EXCEPT !.chatTitle = chatTitle]}
         ELSE table

\* ensureChat({chatId, chatTitle}) run at time at: the document it returns,
\* which is the one read before the patch, or the one inserted
ensureChatReturns(table, chatId, chatTitle, at) ==
    LET rows == { row \in table : row.chatId = chatId } IN
    IF rows = {}
    THEN [chatId |-> chatId, chatTitle |-> chatTitle, enabled |-> TRUE, createdAt |-> at]
    ELSE CHOOSE row \in rows : TRUE

\* how a JS condition reads an optional number: undefined and 0 are falsy
TruthyNumber(n) == n \notin {undefined, 0}

\* Mutant: the message is sent without reply_parameters.
sendMessageNoReply(chatId, text, replyToMessageId, messageThreadId, ok) ==
    [chat_id |-> chatId, text |-> text,
     message_thread_id |->
         IF TruthyNumber(messageThreadId) THEN messageThreadId ELSE undefined,
     reply_parameters |-> undefined,
     ok |-> ok]

\* sendMessage(token, chatId, text, {replyToMessageId, messageThreadId}): the
\* body it posts, and whether Telegram answered with success
sendMessage(chatId, text, replyToMessageId, messageThreadId, ok) ==
    [chat_id |-> chatId, text |-> text,
     message_thread_id |->
         IF TruthyNumber(messageThreadId) THEN messageThreadId ELSE undefined,
     reply_parameters |->
         IF TruthyNumber(replyToMessageId) THEN replyToMessageId ELSE undefined,
     ok |-> ok]

\* ------------------------------------------------------------ pure helpers
Truthy(opt) == opt \notin {"unset", "false"}

\* [{role: "system", content: systemPrompt}, ...messages.map(...)]
WireMessages(sp, msgs) ==
    <<[role |-> "system", content |-> sp]>>
    \o [k \in 1..Len(msgs) |-> [role |-> msgs[k].role, content |-> msgs[k].content]]

\* apiMessages.push({role: "assistant", content, tool_calls})
AssistantEntry(message) ==
    [role |-> "assistant", content |-> message.content,
     tool_calls |-> message.tool_calls]

\* apiMessages.push({role: "tool", tool_call_id, name, content: arguments})
ToolEntry(toolCall) ==
    [role |-> "tool", tool_call_id |-> toolCall.id,
     name |-> toolCall.function.name, content |-> toolCall.function.arguments]

ToolEntries(toolCalls) ==
    [k \in 1..Len(toolCalls) |-> ToolEntry(toolCalls[k])]

\* for (const toolCall of tool_calls) searchQueries.push(arguments)
QueriesOf(toolCalls) ==
    [k \in 1..Len(toolCalls) |-> toolCalls[k].function.arguments]

\* Mutant: the ?? 0 is missing, an omitted count is added as it is.
OrZeroMissing(n) == n

\* data.usage?.prompt_tokens ?? 0
OrZero(n) == IF n = undefined THEN 0 ELSE n

\* content ?? ""
OrEmpty(c) == IF c = Null THEN "" ELSE c

\* {text, inputTokens, outputTokens, ...(queries.length > 0 && {webSearchQueries})}
AIResponse(text, inTok, outTok, queries) ==
    IF Len(queries) > 0
    THEN [kind |-> "result", text |-> text, inputTokens |-> inTok,
          outputTokens |-> outTok, webSearchQueries |-> queries]
    ELSE [kind |-> "result", text |-> text, inputTokens |-> inTok,
          outputTokens |-> outTok]

\* Mutant: the error message is built without response.status.
HttpErrorNoStatus(status) == [kind |-> "error", error |-> "ProviderHttpError", status |-> 0]

\* Mutant: no choices is tolerated like in the single-turn callers (?? "").
EmptyTextResult == AIResponse("", undefined, undefined, <<>>)

\* throw new Error(...): the failure kinds of the gateway
HttpError(status) == [kind |-> "error", error |-> "ProviderHttpError", status |-> status]
ShapeError == [kind |-> "error", error |-> "ProviderShapeError"]
\* Mutant: the throw after the loop is missing, the function falls off its end.
FallsOffEnd == [kind |-> "undefined"]
MaxIterationsError == [kind |-> "error", error |-> "MaxIterationsExceeded"]
UnknownProviderError == [kind |-> "error", error |-> "UnknownProvider"]

\* the Error thrown by readOptionalThinkingEnv
InvalidOptionError == [kind |-> "error", error |-> "InvalidOption"]

\* ------------------------------------------------------------ request bodies
BearerHeaders ==
    [ContentType |-> "application/json", Authorization |-> <<"Bearer ", ApiKey>>]

ClaudeRequest(sp, msgs) ==
    [url |-> "https://api.anthropic.com/v1/messages",
     headers |-> [ContentType |-> "application/json", x_api_key |-> ApiKey,
                  anthropic_version |-> "2023-06-01"],
     body |-> [model |-> Model, max_tokens |-> 1024, system |-> sp,
               messages |-> Tail(WireMessages(sp, msgs))]]

OPENAI_COMPATIBLE_ENDPOINTS(p) ==
    CASE p = "openai" -> "https://api.openai.com/v1/chat/completions"
      [] p = "moonshot" -> "https://api.moonshot.ai/v1/chat/completions"
      [] p = "grok" -> "https://api.x.ai/v1/chat/completions"

RESPONSES_API_ENDPOINTS(p) ==
    CASE p = "openai" -> "https://api.openai.com/v1/responses"
      [] p = "grok" -> "https://api.x.ai/v1/responses"

\* Mutant: the payload always carries a tools array, empty without search.
OpenAICompatibleRequestEmptyTools(p, sp, msgs, thinking) ==
    [url |-> OPENAI_COMPATIBLE_ENDPOINTS(p),
     headers |-> BearerHeaders,
     body |-> [model |-> Model, max_tokens |-> 1024,
               messages |-> WireMessages(sp, msgs), tools |-> <<>>]]

\* payload of callOpenAICompatible: thinking only for moonshot, never tools
OpenAICompatibleRequest(p, sp, msgs, thinking) ==
    [url |-> OPENAI_COMPATIBLE_ENDPOINTS(p),
     headers |-> BearerHeaders,
     body |-> IF p = "moonshot" /\ Truthy(thinking)
              THEN [model |-> Model, max_tokens |-> 1024,
                    messages |-> WireMessages(sp, msgs),
                    thinking |-> [type |-> thinking]]
              ELSE [model |-> Model, max_tokens |-> 1024,
                    messages |-> WireMessages(sp, msgs)]]

\* body of one turn of callMoonshotWithSearch
MoonshotSearchRequest(transcript, thinking) ==
    [url |-> OPENAI_COMPATIBLE_ENDPOINTS("moonshot"),
     headers |-> BearerHeaders,
     body |-> IF Truthy(thinking)
              THEN [model |-> Model, max_tokens |-> 1024, messages |-> transcript,
                    tools |-> <<[type |-> "builtin_function",
                                 function |-> [name |-> "$web_search"]]>>,
                    thinking |-> [type |-> thinking]]
              ELSE [model |-> Model, max_tokens |-> 1024, messages |-> transcript,
                    tools |-> <<[type |-> "builtin_function",
                                 function |-> [name |-> "$web_search"]]>>]]

ResponsesRequest(p, sp, msgs) ==
    [url |-> RESPONSES_API_ENDPOINTS(p),
     headers |-> BearerHeaders,
     body |-> [model |-> Model, input |-> WireMessages(sp, msgs),
               tools |-> <<[type |-> "web_search"]>>, store |-> FALSE]]

\* ---------------------------------------------------------------- dispatch
\* Mutant: the default case falls back to claude instead of throwing.
DispatchDefaultsToClaude(p, webSearch) ==
    CASE p = "moonshot" ->
            IF Truthy(webSearch) THEN "callMoonshotWithSearch"
            ELSE "callOpenAICompatible"
      [] p \in {"grok", "openai"} ->
            IF Truthy(webSearch) THEN "callResponsesAPIWithSearch"
            ELSE "callOpenAICompatible"
      [] OTHER -> "callClaude"

\* Mutant: claude rejects a webSearch request instead of ignoring it.
DispatchClaudeRejectsSearch(p, webSearch) ==
    CASE p = "claude" -> IF Truthy(webSearch) THEN "throw" ELSE "callClaude"
      [] p = "moonshot" ->
            IF Truthy(webSearch) THEN "callMoonshotWithSearch"
            ELSE "callOpenAICompatible"
      [] p \in {"grok", "openai"} ->
            IF Truthy(webSearch) THEN "callResponsesAPIWithSearch"
            ELSE "callOpenAICompatible"
      [] OTHER -> "throw"

\* Mutant: moonshot ignores webSearch and takes the single-turn call.
DispatchMoonshotIgnoresSearch(p, webSearch) ==
    CASE p = "claude" -> "callClaude"
      [] p = "moonshot" -> "callOpenAICompatible"
      [] p \in {"grok", "openai"} ->
            IF Truthy(webSearch) THEN "callResponsesAPIWithSearch"
            ELSE "callOpenAICompatible"
      [] OTHER -> "throw"

\* switch (provider) of generateResponse
Dispatch(p, webSearch) ==
    CASE p = "claude" -> "callClaude"
      [] p = "moonshot" ->
            IF Truthy(webSearch) THEN "callMoonshotWithSearch"
            ELSE "callOpenAICompatible"
      [] p \in {"grok", "openai"} ->
            IF Truthy(webSearch) THEN "callResponsesAPIWithSearch"
            ELSE "callOpenAICompatible"
      [] OTHER -> "throw"

FirstRequest(c, p, sp, msgs, thinking) ==
    CASE c = "callClaude" -> ClaudeRequest(sp, msgs)
      [] c = "callOpenAICompatible" -> OpenAICompatibleRequest(p, sp, msgs, thinking)
      [] c = "callMoonshotWithSearch" ->
            MoonshotSearchRequest(WireMessages(sp, msgs), thinking)
      [] c = "callResponsesAPIWithSearch" -> ResponsesRequest(p, sp, msgs)

\* ------------------------------------------------------------------- Init
Init ==
    /\ pc = "idle"
    /\ callee = "none"
    /\ provider = "none"
    /\ options = [webSearch |-> "unset", thinking |-> "unset"]
    /\ messages = <<>>
    /\ systemPrompt = ""
    /\ apiMessages = <<>>
    /\ totalInputTokens = 0
    /\ totalOutputTokens = 0
    /\ searchQueries = <<>>
    /\ i = 0
    /\ fetchCalls = <<>>
    /\ responses = <<>>
    /\ outcomes = <<>>
    /\ env = EnvUnset
    /\ suspended = IdleInvocation
    /\ cfg = [deployed |-> FALSE]
    /\ now = 0
    /\ messagesTable = <<>>
    /\ rateLimitsTable = {}
    /\ chatsTable = {}
    /\ telegramCalls = <<>>
    /\ scheduled = <<>>
    /\ handler = [stage |-> "none"]
    /\ rateLog = <<>>
    /\ job = [stage |-> "none"]
    /\ cleared = <<>>
    /\ pruned = <<>>
    /\ parked = [stage |-> "none"]
    /\ ensured = <<>>

\* ---------------------------------------------------------------- actions
\* generateResponse(provider, apiKey, model, systemPrompt, messages, options)
\* run up to its first fetch (or its throw)
Invoke(p, sp, msgs, ws, th) ==
    /\ provider' = p
    /\ systemPrompt' = sp
    /\ messages' = msgs
    /\ options' = [webSearch |-> ws, thinking |-> th]
    /\ callee' = Dispatch(p, ws)
    /\ responses' = <<>>
    /\ totalInputTokens' = 0
    /\ totalOutputTokens' = 0
    /\ searchQueries' = <<>>
    /\ i' = 0
    /\ IF Dispatch(p, ws) = "throw"
       THEN /\ pc' = "done"
            /\ outcomes' = <<UnknownProviderError>>
            /\ fetchCalls' = <<>>
            /\ apiMessages' = <<>>
       ELSE /\ pc' = "awaiting"
            /\ outcomes' = <<>>
            /\ fetchCalls' = <<FirstRequest(Dispatch(p, ws), p, sp, msgs, th)>>
            /\ apiMessages' =
                 IF Dispatch(p, ws) = "callMoonshotWithSearch"
                 THEN WireMessages(sp, msgs) ELSE <<>>

\* generateResponse(provider, apiKey, model, systemPrompt, messages, options):
\* the invocation, run up to its first fetch (or its throw).
Generate(p, sp, msgs, ws, th) ==
    /\ pc = "idle"
    /\ Invoke(p, sp, msgs, ws, th)
    /\ UNCHANGED hostVars

\* return / throw: settle the promise of the invocation
Settle(outcome) ==
    /\ pc' = "done"
    /\ outcomes' = Append(outcomes, outcome)

\* The caller of generateResponse: it reads AI_THINKING with
\* readOptionalThinkingEnv and passes the mode as options.thinking; the throw
\* of the reader ends the call before generateResponse runs.
GenerateFromEnv(p, sp, msgs, ws, value) ==
    /\ pc = "idle"
    /\ env' = value
    /\ UNCHANGED << suspended, botVars >>
    /\ LET thinking == readOptionalThinkingEnv(value) IN
       IF thinking.threw
       THEN /\ Settle(InvalidOptionError)
            /\ UNCHANGED << argVars, loopVars, fetchCalls, responses >>
       ELSE Invoke(p, sp, msgs, ws, thinking.value)

\* Mutant: callClaude throws on an empty content array.
ClaudeOutcomeStrict(r) ==
    IF ~r.ok THEN HttpError(r.status)
    ELSE IF Len(r.content) = 0 THEN ShapeError
    ELSE AIResponse(r.content[1].text,
                    r.usage.input_tokens, r.usage.output_tokens, <<>>)

\* callClaude after its fetch resolves
ClaudeOutcome(r) ==
    IF ~r.ok THEN HttpError(r.status)
    ELSE AIResponse(IF Len(r.content) > 0 THEN r.content[1].text ELSE "",
                    r.usage.input_tokens, r.usage.output_tokens, <<>>)

ReceiveClaude(r) ==
    /\ pc = "awaiting"
    /\ callee = "callClaude"
    /\ responses' = Append(responses, r)
    /\ Settle(ClaudeOutcome(r))
    /\ UNCHANGED << argVars, loopVars, fetchCalls, hostVars >>

\* callOpenAICompatible after its fetch resolves
OpenAICompatibleOutcome(r) ==
    IF ~r.ok THEN HttpError(r.status)
    ELSE AIResponse(IF Len(r.choices) > 0
                    THEN OrEmpty(r.choices[1].message.content) ELSE "",
                    r.usage.prompt_tokens, r.usage.completion_tokens, <<>>)

ReceiveOpenAICompatible(r) ==
    /\ pc = "awaiting"
    /\ callee = "callOpenAICompatible"
    /\ responses' = Append(responses, r)
    /\ Settle(OpenAICompatibleOutcome(r))
    /\ UNCHANGED << argVars, loopVars, fetchCalls, hostVars >>

\* callResponsesAPIWithSearch after its fetch resolves
FindMessage(output) ==
    LET idx == { k \in 1..Len(output) : output[k].type = "message" }
    IN IF idx = {} THEN 0 ELSE CHOOSE k \in idx : \A j \in idx : k <= j

SearchCallCount(output) ==
    Cardinality({ k \in 1..Len(output) : output[k].type = "web_search_call" })

\* Mutant: the text is read from the first output item whatever its type.
ResponsesTextFirstItem(output) ==
    IF Len(output) = 0 THEN ""
    ELSE IF Len(output[1].content) = 0 THEN ""
    ELSE output[1].content[1].text

ResponsesText(output) ==
    LET m == FindMessage(output)
    IN IF m = 0 THEN ""
       ELSE IF Len(output[m].content) = 0 THEN ""
       ELSE output[m].content[1].text

\* `web_search (${searchCalls.length} call(s))`
SearchSummaries ==
    <<"web_search (1 call(s))", "web_search (2 call(s))", "web_search (3 call(s))">>
SearchSummary(n) == SearchSummaries[IF n > 3 THEN 3 ELSE n]

ResponsesOutcome(r) ==
    IF ~r.ok THEN HttpError(r.status)
    ELSE AIResponse(ResponsesText(r.output),
                    r.usage.prompt_tokens, r.usage.completion_tokens,
                    IF SearchCallCount(r.output) > 0
                    THEN <<SearchSummary(SearchCallCount(r.output))>> ELSE <<>>)

ReceiveResponsesAPI(r) ==
    /\ pc = "awaiting"
    /\ callee = "callResponsesAPIWithSearch"
    /\ responses' = Append(responses, r)
    /\ Settle(ResponsesOutcome(r))
    /\ UNCHANGED << argVars, loopVars, fetchCalls, hostVars >>

\* Mutant: an unexpected finish_reason throws instead of returning.
TurnKindStrict(r) ==
    IF ~r.ok THEN "http_error"
    ELSE IF Len(r.choices) = 0 THEN "no_choices"
    ELSE IF r.choices[1].finish_reason = "stop" THEN "stop"
    ELSE IF /\ r.choices[1].finish_reason = "tool_calls"
            /\ r.choices[1].message.has_tool_calls
         THEN "tool_calls"
    ELSE "no_choices"

\* Mutant: the tool_calls branch is taken on the finish_reason alone.
TurnKindIgnoresList(r) ==
    IF ~r.ok THEN "http_error"
    ELSE IF Len(r.choices) = 0 THEN "no_choices"
    ELSE IF r.choices[1].finish_reason = "stop" THEN "stop"
    ELSE IF r.choices[1].finish_reason = "tool_calls" THEN "tool_calls"
    ELSE "unexpected"

\* Mutant: the loop goes on after every finish_reason other than stop.
TurnKindLoopsOnAny(r) ==
    IF ~r.ok THEN "http_error"
    ELSE IF Len(r.choices) = 0 THEN "no_choices"
    ELSE IF r.choices[1].finish_reason = "stop" THEN "stop"
    ELSE "tool_calls"

\* callMoonshotWithSearch: which branch of the loop body a response takes
TurnKind(r) ==
    IF ~r.ok THEN "http_error"
    ELSE IF Len(r.choices) = 0 THEN "no_choices"
    ELSE IF r.choices[1].finish_reason = "stop" THEN "stop"
    ELSE IF /\ r.choices[1].finish_reason = "tool_calls"
            /\ r.choices[1].message.has_tool_calls
         THEN "tool_calls"
    ELSE "unexpected"

\* Mutant: = written for +=, the total keeps the last turn only.
AddInputTokensLastOnly(total, r) == OrZero(r.usage.prompt_tokens)

\* totalInputTokens += data.usage?.prompt_tokens ?? 0
AddInputTokens(total, r) == total + OrZero(r.usage.prompt_tokens)

\* totalOutputTokens += data.usage?.completion_tokens ?? 0
AddOutputTokens(total, r) == total + OrZero(r.usage.completion_tokens)

\* Mutant: the assistant entry is not pushed, only the tool entries are.
ExtendTranscriptOnlyResults(transcript, message) ==
    transcript \o ToolEntries(message.tool_calls)

\* Mutant: the second for loop is missing, no tool entry is pushed.
ExtendTranscriptNoResults(transcript, message) ==
    Append(transcript, AssistantEntry(message))

\* Mutant: the transcript is rebuilt from its first entry on every turn.
ExtendTranscriptFromSystem(transcript, message) ==
    <<transcript[1]>> \o <<AssistantEntry(message)>> \o ToolEntries(message.tool_calls)

\* the two pushes of the tool_calls branch: one assistant entry, then one
\* tool entry per invocation
ExtendTranscript(transcript, message) ==
    Append(transcript, AssistantEntry(message)) \o ToolEntries(message.tool_calls)

\* Mutant: searchQueries is reassigned on every turn instead of pushed to.
ExtendQueriesLastTurn(queries, message) == QueriesOf(message.tool_calls)

\* searchQueries after the tool_calls branch
ExtendQueries(queries, message) == queries \o QueriesOf(message.tool_calls)

\* the return statements of the loop body (stop and unexpected finish_reason)
TurnResult(r, inTok, outTok, queries) ==
    AIResponse(OrEmpty(r.choices[1].message.content), inTok, outTok, queries)

\* Mutant: the loop test written i <= MAX_TOOL_ITERATIONS.
LoopContinuesInclusive(n) == n + 1 <= MAX_TOOL_ITERATIONS

\* Mutant: the loop gives up one iteration early.
LoopContinuesShort(n) == n + 1 < MAX_TOOL_ITERATIONS - 1

\* for (let i = 0; i < MAX_TOOL_ITERATIONS; i++): is another turn taken
\* after the iteration numbered n ended with continue
LoopContinues(n) == n + 1 < MAX_TOOL_ITERATIONS

\* one iteration of the loop of callMoonshotWithSearch, from the arrival of
\* the response up to the next fetch, the return or the throw
ReceiveMoonshotTurn(r) ==
    /\ pc = "awaiting"
    /\ callee = "callMoonshotWithSearch"
    /\ responses' = Append(responses, r)
    /\ UNCHANGED << argVars, hostVars >>
    /\ LET kind == TurnKind(r) IN
       CASE kind = "http_error" ->
              /\ Settle(HttpError(r.status))
              /\ UNCHANGED << loopVars, fetchCalls >>
         [] kind = "no_choices" ->
              /\ totalInputTokens' = AddInputTokens(totalInputTokens, r)
              /\ totalOutputTokens' = AddOutputTokens(totalOutputTokens, r)
              /\ Settle(ShapeError)
              /\ UNCHANGED << apiMessages, searchQueries, i, fetchCalls >>
         [] kind \in {"stop", "unexpected"} ->
              /\ totalInputTokens' = AddInputTokens(totalInputTokens, r)
              /\ totalOutputTokens' = AddOutputTokens(totalOutputTokens, r)
              /\ Settle(TurnResult(r, totalInputTokens', totalOutputTokens',
                                   searchQueries))
              /\ UNCHANGED << apiMessages, searchQueries, i, fetchCalls >>
         [] kind = "tool_calls" ->
              /\ totalInputTokens' = AddInputTokens(totalInputTokens, r)
              /\ totalOutputTokens' = AddOutputTokens(totalOutputTokens, r)
              /\ searchQueries' = ExtendQueries(searchQueries, r.choices[1].message)
              /\ apiMessages' = ExtendTranscript(apiMessages, r.choices[1].message)
              /\ i' = i + 1
              /\ IF LoopContinues(i)
                 THEN /\ fetchCalls' =
                           Append(fetchCalls,
                                  MoonshotSearchRequest(apiMessages', options.thinking))
                      /\ UNCHANGED << pc, outcomes >>
                 ELSE /\ Settle(MaxIterationsError)
                      /\ UNCHANGED fetchCalls

\* Mutant: the usage totals are module-level variables, shared by every
\* invocation, instead of locals of callMoonshotWithSearch.
ResumeSharedTotals(saved, live) ==
    [saved EXCEPT !.totalInputTokens = live.totalInputTokens,
                  !.totalOutputTokens = live.totalOutputTokens]

\* What an invocation finds when it is resumed at its await: its own
\* arguments and locals, as it left them (const apiMessages, let
\* totalInputTokens, let totalOutputTokens, const searchQueries, let i are
\* declared inside the function; ai.ts has no module-level mutable binding).
Resume(saved, live) == saved

\* The event loop leaves the running invocation at its await and resumes the
\* other one.
Switch ==
    /\ suspended' = InvocationState
    /\ LET frame == Resume(suspended, InvocationState) IN
       /\ pc' = frame.pc
       /\ callee' = frame.callee
       /\ provider' = frame.provider
       /\ options' = frame.options
       /\ messages' = frame.messages
       /\ systemPrompt' = frame.systemPrompt
       /\ apiMessages' = frame.apiMessages
       /\ totalInputTokens' = frame.totalInputTokens
       /\ totalOutputTokens' = frame.totalOutputTokens
       /\ searchQueries' = frame.searchQueries
       /\ i' = frame.i
       /\ fetchCalls' = frame.fetchCalls
       /\ responses' = frame.responses
       /\ outcomes' = frame.outcomes
    /\ UNCHANGED << env, botVars >>

\* ------------------------------------------------------------ specification
Receive ==
    \/ \E r \in HttpFailures \cup ClaudeAPIResponses : ReceiveClaude(r)
    \/ \E r \in HttpFailures \cup OpenAIAPIResponses : ReceiveOpenAICompatible(r)
    \/ \E r \in HttpFailures \cup ResponsesAPIResponses : ReceiveResponsesAPI(r)
    \/ \E r \in HttpFailures \cup OpenAIAPIResponses : ReceiveMoonshotTurn(r)

Next ==
    \/ \E p \in Providers, sp \in SystemPrompts, msgs \in MessageLists,
          ws \in WebSearchInputs, th \in ThinkingInputs :
            Generate(p, sp, msgs, ws, th)
    \/ \E r \in HttpFailures \cup ClaudeAPIResponses : ReceiveClaude(r)
    \/ \E r \in HttpFailures \cup OpenAIAPIResponses : ReceiveOpenAICompatible(r)
    \/ \E r \in HttpFailures \cup ResponsesAPIResponses : ReceiveResponsesAPI(r)
    \/ \E r \in HttpFailures \cup OpenAIAPIResponses : ReceiveMoonshotTurn(r)

Spec == Init /\ [][Next]_vars

\* Every HTTP request eventually returns: a fetch in flight is answered.
FairSpec == Spec /\ WF_vars(Receive)

\* ------------------------------------- specification: options from the env
\* The turns of the loop this specification answers with: every terminal
\* turn, and the tool_calls turns with one invocation and no usage.
EnvTurns ==
    { r \in HttpFailures \cup OpenAIAPIResponses :
        TurnKind(r) = "tool_calls" =>
            /\ Len(r.choices[1].message.tool_calls) = 1
            /\ r.usage.prompt_tokens = undefined }

EnvNext ==
    \/ \E p \in Providers, sp \in SystemPrompts, msgs \in MessageLists,
          ws \in WebSearchInputs, value \in EnvValues :
            GenerateFromEnv(p, sp, msgs, ws, value)
    \/ \E r \in HttpFailures \cup ClaudeAPIResponses : ReceiveClaude(r)
    \/ \E r \in HttpFailures \cup OpenAIAPIResponses : ReceiveOpenAICompatible(r)
    \/ \E r \in HttpFailures \cup ResponsesAPIResponses : ReceiveResponsesAPI(r)
    \/ \E r \in EnvTurns : ReceiveMoonshotTurn(r)

EnvSpec == Init /\ [][EnvNext]_vars

\* ------------------------------------------------- vocabulary of the claims
InLoop == callee = "callMoonshotWithSearch"

KnownProviders == {"claude", "moonshot", "grok", "openai"}

\* the stop signal a success response of the chat dialect reports
StopSignal(r) ==
    IF r.ok /\ Len(r.choices) > 0 THEN r.choices[1].finish_reason ELSE "none"

\* a turn that requests tool invocations: stop signal tool_calls, with its list
RequestsTools(r) ==
    /\ StopSignal(r) = "tool_calls"
    /\ r.choices[1].message.has_tool_calls

Invocations(r) == r.choices[1].message.tool_calls

AllRequestTools(rs) == \A k \in 1..Len(rs) : RequestsTools(rs[k])

Last(s) == s[Len(s)]

Front(s) == SubSeq(s, 1, Len(s) - 1)

ReportedPrompt(r) ==
    IF r.ok /\ r.usage.prompt_tokens # undefined THEN r.usage.prompt_tokens ELSE 0

ReportedCompletion(r) ==
    IF r.ok /\ r.usage.completion_tokens # undefined
    THEN r.usage.completion_tokens ELSE 0

RECURSIVE SumPrompt(_)
SumPrompt(rs) ==
    IF rs = <<>> THEN 0 ELSE ReportedPrompt(Head(rs)) + SumPrompt(Tail(rs))

RECURSIVE SumCompletion(_)
SumCompletion(rs) ==
    IF rs = <<>> THEN 0 ELSE ReportedCompletion(Head(rs)) + SumCompletion(Tail(rs))

Returned == pc = "done" /\ Len(outcomes) = 1 /\ outcomes[1].kind = "result"

Failed(error) ==
    pc = "done" /\ Len(outcomes) = 1 /\ outcomes[1].kind = "error"
    /\ outcomes[1].error = error

\* ----------------------------------- specification: two invocations at once
\* The answers this specification gives: a failure, a stop, a turn with one
\* invocation and a turn with the longest list of invocations.
ConcTurns ==
    { r \in HttpFailures \cup OpenAIAPIResponses :
        \/ ~r.ok /\ r.status = 500
        \/ /\ TurnKind(r) = "stop"
           /\ r.choices[1].message.content # Null
           /\ r.usage.prompt_tokens # undefined
        \/ /\ TurnKind(r) = "tool_calls"
           /\ \/ /\ Len(r.choices[1].message.tool_calls) = 1
                 /\ r.usage.prompt_tokens # undefined
              \/ /\ Len(r.choices[1].message.tool_calls) = MaxToolCalls
                 /\ r.usage.prompt_tokens = undefined }

ConcClaudeAnswers ==
    { r \in HttpFailures \cup ClaudeAPIResponses :
        \/ ~r.ok /\ r.status = 500
        \/ r.ok /\ r.content # <<>> /\ r.usage.input_tokens # undefined }

ConcNext ==
    \/ \E p \in {"moonshot", "claude"}, sp \in SystemPrompts, msgs \in MessageLists :
            Generate(p, sp, msgs, "true", "unset")
    \/ \E r \in ConcClaudeAnswers : ReceiveClaude(r)
    \/ \E r \in ConcTurns : ReceiveMoonshotTurn(r)
    \/ Switch

ConcSpec == Init /\ [][ConcNext]_vars

\* ------------------------------------------------ specification: the webhook
\* The deployment is given its environment variables.
Deploy(c) ==
    /\ ~cfg.deployed
    /\ cfg' = c
    /\ UNCHANGED << gatewayVars, pruned, parked, ensured, cleared, now, messagesTable, rateLimitsTable, chatsTable,
                    telegramCalls, scheduled, handler, rateLog, job >>

\* the webhook requests handled so far
Delivered == IF handler.stage = "none" THEN 0 ELSE handler.n

\* new Response(..., {status}); an error thrown out of the handler is a 500
Responded(h, status) == [h EXCEPT !.stage = "responded", !.status = status]

\* Mutant: only a request without the header is turned away.
SecretRejectsMissingHeader(secret, headerSecret) ==
    secret \notin {"<undefined>", ""} /\ headerSecret = Null

\* if (secret && headerSecret !== secret): the request is turned away
SecretRejects(secret, headerSecret) ==
    secret \notin {"<undefined>", ""} /\ headerSecret # secret

\* POST /api/telegram-webhook, from its first line to its first await of a
\* mutation or of Telegram, or to its response when it comes before any
WebhookEntry(request, n) ==
    LET secret == cfg.TELEGRAM_WEBHOOK_SECRET
        h == [stage |-> "entered", n |-> n, request |-> request, status |-> 0]
    IN
    IF SecretRejects(secret, request.header) THEN Responded(h, 401)
    ELSE IF ~request.body.json THEN Responded(h, 400)
    ELSE IF ~request.body.hasMessage \/ ~Present(request.body.message.text)
    THEN Responded(h, 200)
    ELSE
    LET message == request.body.message
        locals ==
            [stage |-> "entered", n |-> n, request |-> request, status |-> 0,
             chatId |-> message.chat.id,
             userId |-> message.from.id,
             userName |-> buildUserName(message.from.first_name, message.from.last_name),
             messageText |-> message.text,
             messageId |-> message.message_id,
             chatTitle |-> message.chat.title,
             messageThreadId |-> message.message_thread_id]
        isCommand == startsWith(message.text, <<"/">>)
        command == parseCommand(message.text)
    IN
    IF ~Present(cfg.TELEGRAM_BOT_TOKEN) THEN Responded(locals, 500)
    ELSE IF ~isAllowedUser(message.from.id, OrDefault(cfg.ALLOWED_USER_IDS, <<>>))
    THEN Responded(locals, 200)
    ELSE IF ~isAllowedChat(message.chat.id, message.chat.type,
                           OrDefault(cfg.ALLOWED_GROUP_IDS, <<>>))
    THEN Responded(locals, 200)
    ELSE IF ~shouldRespond(message.chat.type, message.text, BotUsername, FALSE)
    THEN [locals EXCEPT !.stage = "store_context"]
    ELSE IF isCommand /\ command \in {<<"/", "s", "t", "a", "r", "t">>, HelpCommand}
    THEN [locals EXCEPT !.stage = "send_help"]
    ELSE IF isCommand /\ command = <<"/", "r", "e", "s", "e", "t">>
    THEN [locals EXCEPT !.stage = "clear_chat"]
    ELSE [locals EXCEPT !.stage = "check_rate_limit"]

\* Telegram delivers an update: the handler runs up to its first await.
Deliver(request) ==
    /\ cfg.deployed
    /\ handler.stage \in {"none", "responded"}
    /\ Delivered < MaxDeliveries
    /\ handler' = WebhookEntry(request, Delivered + 1)
    /\ UNCHANGED << gatewayVars, pruned, parked, ensured, cleared, cfg, now, messagesTable, rateLimitsTable,
                    chatsTable, telegramCalls, scheduled, rateLog, job >>

\* A message the bot does not answer is stored as group context.
StoreContext ==
    /\ handler.stage = "store_context"
    /\ messagesTable' =
            store(messagesTable,
                  [chatId |-> handler.chatId,
                   messageThreadId |-> handler.messageThreadId,
                   userId |-> handler.userId, userName |-> handler.userName,
                   role |-> "user", text |-> handler.messageText,
                   telegramMessageId |-> handler.messageId], now)
    /\ handler' = Responded(handler, 200)
    /\ UNCHANGED << gatewayVars, pruned, parked, ensured, cleared, cfg, now, rateLimitsTable, chatsTable,
                    telegramCalls, scheduled, rateLog, job >>

\* await sendMessage(...) in the handler: the call is made; it throws and the
\* request fails when Telegram does not answer with success
HandlerSends(text, replyToMessageId, ok) ==
    /\ telegramCalls' =
            Append(telegramCalls,
                   sendMessage(handler.chatId, text, replyToMessageId,
                               handler.messageThreadId, ok))
    /\ handler' = Responded(handler, IF ok THEN 200 ELSE 500)

\* /start and /help
SendHelp(ok) ==
    /\ handler.stage = "send_help"
    /\ HandlerSends(HelpText, undefined, ok)
    /\ UNCHANGED << gatewayVars, pruned, parked, ensured, cleared, cfg, now, messagesTable, rateLimitsTable,
                    chatsTable, scheduled, rateLog, job >>

\* /reset: the clearChat mutation
ClearChat ==
    /\ handler.stage = "clear_chat"
    /\ messagesTable' = clearChat(messagesTable, handler.chatId, handler.messageThreadId)
    /\ cleared' = Append(cleared, [chatId |-> handler.chatId,
                                   messageThreadId |-> handler.messageThreadId,
                                   found |-> messagesTable])
    /\ handler' = [handler EXCEPT !.stage = "send_cleared"]
    /\ UNCHANGED << gatewayVars, pruned, parked, ensured, cfg, now, rateLimitsTable, chatsTable,
                    telegramCalls, scheduled, rateLog, job >>

\* /reset: the confirmation
SendCleared(ok) ==
    /\ handler.stage = "send_cleared"
    /\ HandlerSends(ClearedText, undefined, ok)
    /\ UNCHANGED << gatewayVars, pruned, parked, ensured, cleared, cfg, now, messagesTable, rateLimitsTable,
                    chatsTable, scheduled, rateLog, job >>

\* Number(process.env.RATE_LIMIT_PER_MINUTE ?? "10")
MaxPerMinute ==
    StringToNumber(OrDefault(cfg.RATE_LIMIT_PER_MINUTE, <<"1", "0">>))

\* Mutant: the handler goes on whatever checkRateLimit answered.
AfterRateLimitUnread(allowed) == "store_user"

\* if (!allowed): the handler's next step after checkRateLimit
AfterRateLimit(allowed) == IF allowed THEN "store_user" ELSE "send_too_fast"

\* the checkRateLimit mutation, run for the handler
CheckRateLimit ==
    /\ handler.stage = "check_rate_limit"
    /\ LET result == checkRateLimit(rateLimitsTable, handler.chatId, handler.userId,
                                    MaxPerMinute, now)
       IN /\ rateLimitsTable' = result.table
          /\ rateLog' =
                IF result.threw THEN rateLog
                ELSE Append(rateLog,
                            RateLogEntry(handler.chatId, handler.userId,
                                         MaxPerMinute, now, result))
          /\ handler' =
                IF result.threw THEN Responded(handler, 500)
                ELSE [handler EXCEPT !.stage = AfterRateLimit(result.allowed)]
    /\ UNCHANGED << gatewayVars, pruned, parked, ensured, cleared, cfg, now, messagesTable, chatsTable,
                    telegramCalls, scheduled, job >>

\* the rate limit is exceeded: the reply that says so
SendTooFast(ok) ==
    /\ handler.stage = "send_too_fast"
    /\ HandlerSends(TooFastText, handler.messageId, ok)
    /\ UNCHANGED << gatewayVars, pruned, parked, ensured, cleared, cfg, now, messagesTable, rateLimitsTable,
                    chatsTable, scheduled, rateLog, job >>

\* stripMention(messageText, botUsername)
CleanText == stripMention(handler.messageText, BotUsername)

\* the user's message is stored, without the mention of the bot
StoreUser ==
    /\ handler.stage = "store_user"
    /\ messagesTable' =
            store(messagesTable,
                  [chatId |-> handler.chatId,
                   messageThreadId |-> handler.messageThreadId,
                   userId |-> handler.userId, userName |-> handler.userName,
                   role |-> "user", text |-> CleanText,
                   telegramMessageId |-> handler.messageId], now)
    /\ handler' = [handler EXCEPT !.stage = "ensure_chat"]
    /\ UNCHANGED << gatewayVars, pruned, parked, ensured, cleared, cfg, now, rateLimitsTable, chatsTable,
                    telegramCalls, scheduled, rateLog, job >>

\* the ensureChat mutation, run for the handler
EnsureChat ==
    /\ handler.stage = "ensure_chat"
    /\ chatsTable' = ensureChat(chatsTable, handler.chatId, handler.chatTitle, now)
    /\ handler' = [handler EXCEPT !.stage = "schedule"]
    /\ UNCHANGED << gatewayVars, pruned, parked, ensured, cleared, cfg, now, messagesTable, rateLimitsTable,
                    telegramCalls, scheduled, rateLog, job >>

\* ctx.scheduler.runAfter(0, internal.telegram.processMessage, {...})
Schedule ==
    /\ handler.stage = "schedule"
    /\ scheduled' =
            Append(scheduled,
                   [chatId |-> handler.chatId, userId |-> handler.userId,
                    userName |-> handler.userName, messageText |-> CleanText,
                    messageId |-> handler.messageId,
                    messageThreadId |-> handler.messageThreadId])
    /\ handler' = Responded(handler, 200)
    /\ UNCHANGED << gatewayVars, pruned, parked, ensured, cleared, cfg, now, messagesTable, rateLimitsTable,
                    chatsTable, telegramCalls, rateLog, job >>

HookNext ==
    \/ \E c \in Configs : Deploy(c)
    \/ \E request \in WebhookRequests : Deliver(request)
    \/ StoreContext
    \/ \E ok \in BOOLEAN : SendHelp(ok)
    \/ ClearChat
    \/ \E ok \in BOOLEAN : SendCleared(ok)
    \/ CheckRateLimit
    \/ \E ok \in BOOLEAN : SendTooFast(ok)
    \/ StoreUser
    \/ EnsureChat
    \/ Schedule

HookSpec == Init /\ [][HookNext]_vars

\* ------------------------------------------------------------------ claims
\* C1: in the tool-call loop, once the provider has answered five consecutive
\* turns that request tool invocations (stop signal tool_calls with its
\* tool_calls list, the branch of ai.ts:485) and none with stop, the call has
\* failed with MaxIterationsExceeded after exactly five HTTP requests; no
\* sixth request is ever issued.
C1_FiveToolTurnsFail ==
    (InLoop /\ Len(responses) >= MAX_TOOL_ITERATIONS /\ AllRequestTools(responses))
        => /\ Failed("MaxIterationsExceeded")
           /\ Len(responses) = 5
           /\ Len(fetchCalls) = 5

C1_Witness ==
    /\ InLoop
    /\ Len(responses) = 5
    /\ AllRequestTools(responses)
    /\ Failed("MaxIterationsExceeded")
    /\ Len(fetchCalls) = 5

\* C2: whatever the provider answers, and given that every HTTP request is
\* eventually answered, a started generate call terminates, and it settles
\* exactly once: with one result or one error, never both, never neither.
C2_TerminatesOnce ==
    /\ (pc = "awaiting") ~> (pc = "done")
    /\ [](Len(outcomes) <= 1)
    /\ []((pc = "done") <=> (Len(outcomes) = 1))
    /\ [](\A k \in 1..Len(outcomes) : outcomes[k].kind \in {"result", "error"})

C2_Witness ==
    /\ InLoop
    /\ pc = "done"
    /\ Len(responses) = 3
    /\ Len(outcomes) = 1
    /\ outcomes[1].kind = "result"

\* C3: when the loop returns a result after n turns (n - 1 turns requesting
\* tools, then a terminal turn, 1 <= n <= 5), inputTokens and outputTokens are
\* the sums of the prompt and completion counts reported by all n turns (a
\* turn that reports none adds nothing); for n = 1 this is the first turn's
\* usage.
C3_TokenTotalsAreSums ==
    (InLoop /\ Returned)
        => /\ Len(responses) \in 1..5
           /\ AllRequestTools(Front(responses))
           /\ ~RequestsTools(Last(responses))
           /\ outcomes[1].inputTokens = SumPrompt(responses)
           /\ outcomes[1].outputTokens = SumCompletion(responses)
           /\ (Len(responses) = 1 =>
                 /\ outcomes[1].inputTokens = ReportedPrompt(responses[1])
                 /\ outcomes[1].outputTokens = ReportedCompletion(responses[1]))

C3_Witness ==
    /\ InLoop
    /\ Returned
    /\ Len(responses) = 3
    /\ \A k \in 1..3 : responses[k].usage.prompt_tokens = 1
    /\ outcomes[1].inputTokens = 3
    /\ outcomes[1].outputTokens = 6

\* C4: in the loop the number of HTTP requests issued equals the number of
\* turns executed: after k consecutive turns requesting tools (k <= 4) the
\* request of turn k + 1 is in flight, and when that turn answers stop the
\* call has made exactly k + 1 requests (one request for a stop on the first
\* turn, three for tool_calls, tool_calls, stop).
C4_RequestsEqualTurns ==
    InLoop =>
        /\ (AllRequestTools(responses) /\ Len(responses) <= 4)
              => (pc = "awaiting" /\ Len(fetchCalls) = Len(responses) + 1)
        /\ (Len(responses) >= 1 /\ StopSignal(Last(responses)) = "stop")
              => /\ pc = "done"
                 /\ AllRequestTools(Front(responses))
                 /\ Len(responses) - 1 \in 0..4
                 /\ Len(fetchCalls) = Len(responses)

C4_Witness ==
    /\ InLoop
    /\ pc = "done"
    /\ Len(responses) = 3
    /\ StopSignal(responses[3]) = "stop"
    /\ Len(fetchCalls) = 3

\* the search trace the tool-requesting turns of rs add up to
RECURSIVE ExpectedTrace(_)
ExpectedTrace(rs) ==
    IF rs = <<>> THEN <<>>
    ELSE (IF RequestsTools(Head(rs))
          THEN [k \in 1..Len(Invocations(Head(rs))) |->
                   Invocations(Head(rs))[k].function.arguments]
          ELSE <<>>) \o ExpectedTrace(Tail(rs))

\* C5: a turn requesting one or more tool invocations appends to the
\* transcript exactly one assistant entry carrying the turn's tool-call
\* descriptors, immediately followed by exactly one tool entry per
\* invocation, in invocation order, each echoing the invocation's id and name
\* with its raw arguments as content; so in every request sent, every
\* assistant entry with tool calls is followed by its matching tool entries.
C5_ToolTurnAppends ==
    /\ [][ (/\ InLoop
            /\ Len(responses') = Len(responses) + 1
            /\ RequestsTools(Last(responses'))
            /\ Len(Invocations(Last(responses'))) >= 1)
           => LET tcs == Invocations(Last(responses'))
                  n == Len(apiMessages)
              IN /\ Len(apiMessages') = n + 1 + Len(tcs)
                 /\ SubSeq(apiMessages', 1, n) = apiMessages
                 /\ apiMessages'[n + 1].role = "assistant"
                 /\ apiMessages'[n + 1].tool_calls = tcs
                 /\ \A j \in 1..Len(tcs) :
                       apiMessages'[n + 1 + j] =
                          [role |-> "tool", tool_call_id |-> tcs[j].id,
                           name |-> tcs[j].function.name,
                           content |-> tcs[j].function.arguments] ]_vars
    /\ [](InLoop =>
            \A q \in 1..Len(fetchCalls) :
               LET ms == fetchCalls[q].body.messages IN
               \A a \in 1..Len(ms) :
                  (ms[a].role = "assistant" /\ "tool_calls" \in DOMAIN ms[a])
                     => LET n == Len(ms[a].tool_calls) IN
                        /\ a + n <= Len(ms)
                        /\ \A j \in 1..n :
                              /\ ms[a + j].role = "tool"
                              /\ ms[a + j].tool_call_id = ms[a].tool_calls[j].id
                              /\ ms[a + j].name = ms[a].tool_calls[j].function.name
                        /\ (a + n < Len(ms) => ms[a + n + 1].role # "tool"))

C5_Witness ==
    /\ InLoop
    /\ Len(responses) = 1
    /\ RequestsTools(responses[1])
    /\ Len(Invocations(responses[1])) = 2
    /\ Len(fetchCalls) = 2
    /\ Len(fetchCalls[2].body.messages) = Len(fetchCalls[1].body.messages) + 3
    /\ Last(fetchCalls[2].body.messages).role = "tool"
    /\ Last(fetchCalls[2].body.messages).tool_call_id = "call_2"

\* C6: a non-success HTTP status on any turn of generate (the only turn of a
\* single-turn path, the first or a later turn of the loop) fails the call
\* with ProviderHttpError carrying that status: no result is returned, no
\* further request is made, and the error carries no usage.
C6_HttpErrorAborts ==
    (Len(responses) >= 1 /\ ~Last(responses).ok)
        => /\ Failed("ProviderHttpError")
           /\ outcomes[1].status = Last(responses).status
           /\ DOMAIN outcomes[1] \cap {"text", "inputTokens", "outputTokens"} = {}
           /\ Len(fetchCalls) = Len(responses)

C6_Witness ==
    /\ InLoop
    /\ Len(responses) = 2
    /\ ~responses[2].ok
    /\ responses[2].status = 429
    /\ totalInputTokens = 1
    /\ Failed("ProviderHttpError")
    /\ outcomes[1].status = 429

\* a success response whose choice list / output list is empty
EmptyChoices(r) == r.ok /\ "choices" \in DOMAIN r /\ r.choices = <<>>
EmptyOutput(r) == r.ok /\ "output" \in DOMAIN r /\ r.output = <<>>

\* C7 as stated: with web search requested, an empty choice/output list on
\* any turn fails generate with ProviderShapeError, with no result and no
\* further request.
C7_Original ==
    (/\ callee \in {"callMoonshotWithSearch", "callResponsesAPIWithSearch"}
     /\ Len(responses) >= 1
     /\ (EmptyChoices(Last(responses)) \/ EmptyOutput(Last(responses))))
        => /\ Failed("ProviderShapeError")
           /\ Len(fetchCalls) = Len(responses)

\* C7 as amended: an empty choices list in a success response on any turn of
\* the moonshot tool-call loop fails generate with ProviderShapeError, with no
\* result and no further request; an empty output list from the Responses
\* API (openai, grok with webSearch) is no error and yields a result with
\* empty text.
C7_EmptyChoicesAbortLoop ==
    /\ (InLoop /\ Len(responses) >= 1 /\ EmptyChoices(Last(responses)))
          => /\ Failed("ProviderShapeError")
             /\ Len(fetchCalls) = Len(responses)
    /\ (/\ callee = "callResponsesAPIWithSearch"
        /\ Len(responses) >= 1
        /\ EmptyOutput(Last(responses)))
          => /\ Returned
             /\ outcomes[1].text = ""
             /\ Len(fetchCalls) = 1

C7_Witness ==
    /\ InLoop
    /\ Len(responses) = 2
    /\ EmptyChoices(responses[2])
    /\ Failed("ProviderShapeError")
    /\ Len(fetchCalls) = 2

\* C8: a loop turn whose stop signal is neither stop nor tool_calls (length)
\* is terminal and no error: generate returns a result with that turn's text
\* ("" for null content), the usage summed over all turns including this
\* one, and the search trace of the earlier turns, and sends no further
\* request.
C8_UnexpectedSignalReturns ==
    (/\ InLoop
     /\ Len(responses) >= 1
     /\ StopSignal(Last(responses)) \notin {"stop", "tool_calls", "none"})
        => LET c == Last(responses).choices[1].message.content
               trace == ExpectedTrace(Front(responses))
           IN /\ Returned
              /\ outcomes[1].text = (IF c = Null THEN "" ELSE c)
              /\ outcomes[1].inputTokens = SumPrompt(responses)
              /\ outcomes[1].outputTokens = SumCompletion(responses)
              /\ IF trace = <<>>
                 THEN "webSearchQueries" \notin DOMAIN outcomes[1]
                 ELSE /\ "webSearchQueries" \in DOMAIN outcomes[1]
                      /\ outcomes[1].webSearchQueries = trace
              /\ Len(fetchCalls) = Len(responses)

C8_Witness ==
    /\ InLoop
    /\ Len(responses) = 2
    /\ StopSignal(responses[2]) = "length"
    /\ responses[2].choices[1].message.content = Null
    /\ Returned
    /\ outcomes[1].text = ""
    /\ outcomes[1].inputTokens = 2
    /\ "webSearchQueries" \in DOMAIN outcomes[1]
    /\ outcomes[1].webSearchQueries = <<"{q1}", "{q2}">>

\* C9: generate with an unrecognized provider identifier fails with
\* UnknownProvider and issues no HTTP request, whatever the options.
C9_UnknownProviderFails ==
    (pc # "idle" /\ provider \notin KnownProviders)
        => /\ Failed("UnknownProvider")
           /\ fetchCalls = <<>>
           /\ responses = <<>>

C9_Witness ==
    /\ provider = "unknown-provider"
    /\ options.webSearch = "true"
    /\ options.thinking = "auto"
    /\ Failed("UnknownProvider")
    /\ fetchCalls = <<>>

\* C10: for a recognized provider, when webSearch is unset (or false) or the
\* provider has no tool support (claude), generate issues exactly one HTTP
\* call; claude given webSearch true ignores the flag: the call is issued,
\* and the call fails only when the response itself is a failure.
C10_SingleCall ==
    (/\ pc # "idle"
     /\ provider \in KnownProviders
     /\ (~Truthy(options.webSearch) \/ provider = "claude"))
        => /\ Len(fetchCalls) = 1
           /\ (pc = "awaiting" => outcomes = <<>> /\ responses = <<>>)
           /\ (pc = "done" =>
                 /\ Len(responses) = 1
                 /\ Len(outcomes) = 1
                 /\ (outcomes[1].kind = "error" <=> ~responses[1].ok))

C10_Witness ==
    /\ provider = "claude"
    /\ options.webSearch = "true"
    /\ Returned
    /\ Len(fetchCalls) = 1
    /\ fetchCalls[1].url = "https://api.anthropic.com/v1/messages"

\* the callee that is the bounded multi-turn loop, and the web-search
\* providers of the README
ToolCallLoopEngine == {"callMoonshotWithSearch"}
WebSearchProviders == {"moonshot", "openai", "grok"}

\* C11 as stated: every provider with tool support (moonshot, openai, grok)
\* given webSearch is routed to the bounded multi-turn tool-call loop.
C11_Original ==
    (pc # "idle" /\ provider \in WebSearchProviders /\ Truthy(options.webSearch))
        => callee \in ToolCallLoopEngine

\* C11 as amended: with webSearch set, moonshot is routed to the bounded
\* multi-turn loop; openai and grok are routed to one Responses-API request
\* that carries the web_search tool, and never send a second request.
C11_WebSearchRouting ==
    (pc # "idle" /\ Truthy(options.webSearch)) =>
        /\ provider = "moonshot" =>
              /\ callee \in ToolCallLoopEngine
              /\ Len(fetchCalls) \in 1..MAX_TOOL_ITERATIONS
              /\ \A q \in 1..Len(fetchCalls) : "tools" \in DOMAIN fetchCalls[q].body
        /\ provider \in {"openai", "grok"} =>
              /\ callee = "callResponsesAPIWithSearch"
              /\ Len(fetchCalls) = 1
              /\ fetchCalls[1].url = RESPONSES_API_ENDPOINTS(provider)
              /\ fetchCalls[1].body.tools = <<[type |-> "web_search"]>>
              /\ Len(responses) = 1 => pc = "done"

C11_Witness ==
    /\ provider = "moonshot"
    /\ options.webSearch = "true"
    /\ callee = "callMoonshotWithSearch"
    /\ Len(fetchCalls) = 2
    /\ pc = "awaiting"

\* C12: with webSearch false or omitted, the request body sent for an
\* OpenAI-compatible provider (moonshot, grok, openai) has no tools field at
\* all, not even an empty array.
C12_NoToolsField ==
    (/\ pc # "idle"
     /\ provider \in {"moonshot", "grok", "openai"}
     /\ options.webSearch \in {"unset", "false"})
        => /\ callee = "callOpenAICompatible"
           /\ Len(fetchCalls) = 1
           /\ fetchCalls[1].url = OPENAI_COMPATIBLE_ENDPOINTS(provider)
           /\ "tools" \notin DOMAIN fetchCalls[1].body

C12_Witness ==
    /\ provider = "moonshot"
    /\ options.webSearch = "false"
    /\ options.thinking = "auto"
    /\ pc = "awaiting"
    /\ Len(fetchCalls) = 1
    /\ DOMAIN fetchCalls[1].body = {"model", "max_tokens", "messages", "thinking"}

\* C13 as stated: the openai provider ignores webSearch; the request of
\* generate("openai", ..., {webSearch: true}) has no tools field.
C13_OpenAIIgnoresWebSearch ==
    (pc # "idle" /\ provider = "openai" /\ options.webSearch = "true")
        => /\ Len(fetchCalls) = 1
           /\ "tools" \notin DOMAIN fetchCalls[1].body

\* a success response of the Claude dialect whose content array is empty
EmptyContent(r) == r.ok /\ "content" \in DOMAIN r /\ r.content = <<>>

SingleTurnCallers == {"callClaude", "callOpenAICompatible"}

NamedMode(value) ==
    CASE value \in {EnvUnset, <<>>} -> "unset"
      [] value \in {Disabled,
                    <<" ", " ", "D", "I", "S", "A", "B", "L", "E", "D", " ", " ">>}
            -> "disabled"
      [] value \in {Enabled, <<"\t", "e", "n", "a", "b", "l", "e", "d">>}
            -> "enabled"
      [] value \in {Auto, <<"A", "u", "t", "o">>} -> "auto"
      [] OTHER -> "invalid"

OmitsUsage(r) == r.ok /\ \A f \in DOMAIN r.usage : r.usage[f] = undefined
AllOmitUsage(rs) == \A k \in 1..Len(rs) : OmitsUsage(rs[k])

\* C16 as stated: on every path of generate the result's inputTokens and
\* outputTokens are absent when the provider's responses omit usage, and
\* non-negative integers when present.
C16_Original ==
    Returned =>
        /\ AllOmitUsage(responses)
              => /\ outcomes[1].inputTokens = undefined
                 /\ outcomes[1].outputTokens = undefined
        /\ outcomes[1].inputTokens # undefined => outcomes[1].inputTokens \in Nat
        /\ outcomes[1].outputTokens # undefined => outcomes[1].outputTokens \in Nat

\* C16 as amended: on the single-request paths (callClaude,
\* callOpenAICompatible, callResponsesAPIWithSearch) inputTokens and
\* outputTokens are absent when the response omits usage; in the tool-call
\* loop they are always present, and 0 when every turn omits usage; when
\* present they are non-negative integers.
C16_TokensBestEffort ==
    Returned =>
        /\ InLoop =>
              /\ outcomes[1].inputTokens \in Nat
              /\ outcomes[1].outputTokens \in Nat
              /\ AllOmitUsage(responses)
                    => (outcomes[1].inputTokens = 0 /\ outcomes[1].outputTokens = 0)
        /\ ~InLoop =>
              /\ AllOmitUsage(responses)
                    <=> (/\ outcomes[1].inputTokens = undefined
                         /\ outcomes[1].outputTokens = undefined)
              /\ ~AllOmitUsage(responses)
                    => (outcomes[1].inputTokens \in Nat /\ outcomes[1].outputTokens \in Nat)

C16_Witness ==
    /\ InLoop
    /\ Returned
    /\ Len(responses) = 2
    /\ OmitsUsage(responses[1])
    /\ ~OmitsUsage(responses[2])
    /\ outcomes[1].inputTokens = 1
    /\ outcomes[1].outputTokens = 2

\* C17: within one generate call in the tool-call loop the transcript's
\* length never decreases, and it strictly increases on every turn that takes
\* the tool_calls path.
C17_TranscriptGrows ==
    [][ InLoop =>
          /\ Len(apiMessages') >= Len(apiMessages)
          /\ (Len(responses') = Len(responses) + 1 /\ RequestsTools(Last(responses')))
                => Len(apiMessages') > Len(apiMessages) ]_vars

C17_Witness ==
    /\ InLoop
    /\ Len(responses) = 2
    /\ RequestsTools(responses[1])
    /\ Invocations(responses[1]) = <<>>
    /\ RequestsTools(responses[2])
    /\ Len(Invocations(responses[2])) = 2
    /\ Len(apiMessages) = 1 + Len(messages) + 1 + 3

\* the transcript entries the tool-requesting turns of rs add up to
RECURSIVE ExpectedEntries(_)
ExpectedEntries(rs) ==
    IF rs = <<>> THEN <<>>
    ELSE (IF RequestsTools(Head(rs))
          THEN <<AssistantEntry(Head(rs).choices[1].message)>>
                   \o ToolEntries(Invocations(Head(rs)))
          ELSE <<>>) \o ExpectedEntries(Tail(rs))

\* the settlement of a loop invocation that ran alone on the responses of f
AloneOutcome(f) ==
    LET last == Last(f.responses) IN
    IF ~last.ok THEN HttpError(last.status)
    ELSE IF last.choices = <<>> THEN ShapeError
    ELSE IF RequestsTools(last) THEN MaxIterationsError
    ELSE AIResponse(OrEmpty(last.choices[1].message.content),
                    SumPrompt(f.responses), SumCompletion(f.responses),
                    ExpectedTrace(f.responses))

\* the state of invocation f is what its own arguments and its own provider
\* responses make it, as in a run of f alone
RunsAsAlone(f) ==
    /\ f.pc = "idle" => f = IdleInvocation
    /\ f.callee = "callMoonshotWithSearch" =>
          /\ f.totalInputTokens = SumPrompt(f.responses)
          /\ f.totalOutputTokens = SumCompletion(f.responses)
          /\ f.searchQueries = ExpectedTrace(f.responses)
          /\ f.apiMessages = WireMessages(f.systemPrompt, f.messages)
                                 \o ExpectedEntries(f.responses)
          /\ f.pc = "awaiting" =>
                /\ Len(f.fetchCalls) = Len(f.responses) + 1
                /\ Last(f.fetchCalls).body.messages = f.apiMessages
          /\ f.pc = "done" =>
                /\ Len(f.fetchCalls) = Len(f.responses)
                /\ f.outcomes = <<AloneOutcome(f)>>
    /\ (f.callee = "callClaude" /\ f.pc = "done") =>
          /\ Len(f.fetchCalls) = 1
          /\ f.outcomes = <<ClaudeOutcome(f.responses[1])>>

\* C18: two generate invocations interleaved at their HTTP awaits in any
\* order share no mutable state: the transcript, token totals and search
\* trace of each are determined by its own arguments and its own provider
\* responses, and each settles with the outcome of a run alone.
C18_InvocationsIndependent ==
    /\ RunsAsAlone(InvocationState)
    /\ RunsAsAlone(suspended)

C18_Witness ==
    /\ InLoop
    /\ suspended.callee = "callMoonshotWithSearch"
    /\ pc = "awaiting"
    /\ suspended.pc = "awaiting"
    /\ Len(responses) = 2
    /\ Len(suspended.responses) = 2
    /\ totalInputTokens = 2
    /\ suspended.totalInputTokens = 0
    /\ Len(searchQueries) = 2
    /\ Len(suspended.searchQueries) = 2 * MaxToolCalls

\* C19: when the loop returns a result, its search trace lists the raw
\* arguments of every tool invocation of the earlier turns, one entry per
\* invocation, in the order received; the trace is absent exactly when no
\* invocation occurred.
C19_SearchTrace ==
    (InLoop /\ Returned) =>
        LET trace == ExpectedTrace(Front(responses))
            count == Len(trace)
        IN /\ ("webSearchQueries" \notin DOMAIN outcomes[1]) <=> (count = 0)
           /\ count > 0 =>
                 /\ Len(outcomes[1].webSearchQueries) = count
                 /\ \A k \in 1..count : outcomes[1].webSearchQueries[k] = trace[k]

C19_Witness ==
    /\ InLoop
    /\ Returned
    /\ Len(responses) = 3
    /\ Len(Invocations(responses[1])) = 2
    /\ Len(Invocations(responses[2])) = 1
    /\ outcomes[1].webSearchQueries = <<"{q1}", "{q2}", "{q1}">>

\* the text of the first message item of a Responses-API output list
RECURSIVE FirstMessageText(_)
FirstMessageText(output) ==
    IF output = <<>> THEN ""
    ELSE IF Head(output).type = "message"
         THEN (IF Head(output).content = <<>> THEN ""
               ELSE Head(output).content[1].text)
         ELSE FirstMessageText(Tail(output))

\* C20: in the openai-responses dialect the text is taken from the first
\* output item of type message; items of other types are skipped whatever
\* their position and never concatenated; the text is empty when there is no
\* message item.
C20_FirstMessageItem ==
    (callee = "callResponsesAPIWithSearch" /\ Returned) =>
        /\ outcomes[1].text = FirstMessageText(responses[1].output)
        /\ (\A k \in 1..Len(responses[1].output) :
               responses[1].output[k].type # "message") => outcomes[1].text = ""

C20_Witness ==
    /\ callee = "callResponsesAPIWithSearch"
    /\ Returned
    /\ responses[1].output = <<WebSearchOutput, WebSearchOutput, MessageOutput("answer")>>
    /\ outcomes[1].text = "answer"

\* ------------------------------------------- specification: processMessage
\* The deployments of this specification: the provider left to its default,
\* claude, or an unknown one; web search on or off; the context left to its
\* default of 30 messages or cut to one; ten messages a minute.
JobConfigs ==
    { [TestConfig EXCEPT !.AI_PROVIDER = p, !.WEB_SEARCH = w,
                         !.RATE_LIMIT_PER_MINUTE = EnvUnset] :
        p \in {"<undefined>", "claude", "unknown-provider"},
        w \in {"<undefined>", "true"} }
    \cup { [TestConfig EXCEPT !.MAX_CONTEXT_MESSAGES = <<"1">>,
                              !.RATE_LIMIT_PER_MINUTE = EnvUnset] }

\* The updates of this specification: Alice mentions the bot in the group, in
\* a topic or outside.
JobRequests ==
    { r \in WebhookRequests :
        /\ r.header = "s3cret"
        /\ r.body.json /\ r.body.hasMessage
        /\ r.body.message.chat = GroupChat
        /\ r.body.message.from = Alice
        /\ r.body.message.text = MentionText }

\* The answers of the provider in this specification: a failure, a stop and a
\* turn with one invocation.
JobTurns ==
    { r \in ConcTurns :
        TurnKind(r) = "tool_calls" => Len(r.choices[1].message.tool_calls) = 1 }

\* DEFAULT_SYSTEM_PROMPT
DEFAULT_SYSTEM_PROMPT == "prompt"

\* the characters of the text a provider answers
TextChars(text) ==
    IF text = "" THEN <<>>
    ELSE <<"o", "k", " ", "[", "[", "1", "]", "]", "(", "u", ")", " ", " ", "n",
      "o", "w">>

\* the processMessage jobs started so far
Started == IF job.stage = "none" THEN 0 ELSE job.k

\* process.env.AI_PROVIDER ?? "moonshot"
AiProvider == IF cfg.AI_PROVIDER = "<undefined>" THEN "moonshot" ELSE cfg.AI_PROVIDER

\* The scheduler runs the next processMessage job, up to its first await; a
\* missing TELEGRAM_BOT_TOKEN or AI_API_KEY throws before the try block.
StartJob ==
    /\ job.stage \in {"none", "finished", "failed"}
    /\ Started < Len(scheduled)
    /\ job' = [stage |-> IF Present(cfg.TELEGRAM_BOT_TOKEN) /\ Present(cfg.AI_API_KEY)
                         THEN "typing" ELSE "failed",
               k |-> Started + 1,
               args |-> scheduled[Started + 1],
               systemPrompt |-> "",
               maxContext |-> 0,
               responseText |-> <<>>]
    /\ UNCHANGED << gatewayVars, pruned, parked, ensured, cleared, cfg, now, messagesTable, rateLimitsTable,
                    chatsTable, telegramCalls, scheduled, handler, rateLog >>

\* await sendChatAction(...): its response is not read; a fetch that rejects
\* throws into the catch block
SendTyping(sent) ==
    /\ job.stage = "typing"
    /\ job' = [job EXCEPT !.stage = IF sent THEN "get_chat" ELSE "send_apology"]
    /\ UNCHANGED << gatewayVars, pruned, parked, ensured, cleared, cfg, now, messagesTable, rateLimitsTable,
                    chatsTable, telegramCalls, scheduled, handler, rateLog >>

\* the getChat query, the system prompt and the context size; the rows of
\* chats have no systemPrompt and no maxContextMessages, for no mutation
\* writes them
GetChat ==
    /\ job.stage = "get_chat"
    /\ job' = [job EXCEPT !.stage = "get_recent",
                          !.systemPrompt = DEFAULT_SYSTEM_PROMPT,
                          !.maxContext =
                              StringToNumber(OrDefault(cfg.MAX_CONTEXT_MESSAGES,
                                                       <<"3", "0">>))]
    /\ UNCHANGED << gatewayVars, pruned, parked, ensured, cleared, cfg, now, messagesTable, rateLimitsTable,
                    chatsTable, telegramCalls, scheduled, handler, rateLog >>

\* the getRecent query, formatConversation and the call of generateResponse,
\* which runs up to its first fetch
GenerateForJob ==
    /\ job.stage = "get_recent"
    /\ pc = "idle"
    /\ Invoke(AiProvider, job.systemPrompt,
              formatConversation(getRecent(messagesTable, job.args.chatId,
                                           job.args.messageThreadId, job.maxContext)),
              IF cfg.WEB_SEARCH = "true" THEN "true" ELSE "false", "unset")
    /\ job' = [job EXCEPT !.stage = "generating"]
    /\ UNCHANGED << env, suspended, cleared, pruned, parked, ensured, cfg, now, messagesTable, rateLimitsTable,
                    chatsTable, telegramCalls, scheduled, handler, rateLog >>

\* generateResponse has settled: on a result the job goes on with the text,
\* stripped and truncated; on a throw it goes to the catch block
AfterGenerate ==
    /\ job.stage = "generating"
    /\ pc = "done"
    /\ pc' = "idle"
    /\ job' = IF outcomes[1].kind = "result"
              THEN [job EXCEPT !.stage = "store_assistant",
                               !.responseText =
                                   truncateResponse(
                                       stripCitations(TextChars(outcomes[1].text)),
                                       MaxResponseLength)]
              ELSE [job EXCEPT !.stage = "send_apology"]
    /\ UNCHANGED << argVars, loopVars, fetchCalls, responses, outcomes, env,
                    suspended, cleared, pruned, parked, ensured, cfg, now, messagesTable,
                    rateLimitsTable,
                    chatsTable, telegramCalls, scheduled, handler, rateLog >>

\* Mutant: the assistant's message is not stored before the reply is sent.
StoreAssistantSkipped ==
    /\ job.stage = "store_assistant"
    /\ job' = [job EXCEPT !.stage = "send_reply"]
    /\ UNCHANGED << gatewayVars, pruned, parked, ensured, cleared, cfg, now, messagesTable,
                    rateLimitsTable, chatsTable, telegramCalls, scheduled, handler,
                    rateLog >>

\* the store mutation of the assistant's message
StoreAssistant ==
    /\ job.stage = "store_assistant"
    /\ messagesTable' =
            store(messagesTable,
                  [chatId |-> job.args.chatId,
                   messageThreadId |-> job.args.messageThreadId,
                   userId |-> undefined, userName |-> EnvUnset,
                   role |-> "assistant", text |-> job.responseText,
                   telegramMessageId |-> undefined], now)
    /\ job' = [job EXCEPT !.stage = "send_reply"]
    /\ UNCHANGED << gatewayVars, pruned, parked, ensured, cleared, cfg, now, rateLimitsTable, chatsTable,
                    telegramCalls, scheduled, handler, rateLog >>

\* await sendMessage(token, chatId, responseText, ...); its throw is caught
SendReply(ok) ==
    /\ job.stage = "send_reply"
    /\ telegramCalls' =
            Append(telegramCalls,
                   sendMessage(job.args.chatId, job.responseText,
                               job.args.messageId, job.args.messageThreadId, ok))
    /\ job' = [job EXCEPT !.stage = IF ok THEN "finished" ELSE "send_apology"]
    /\ UNCHANGED << gatewayVars, pruned, parked, ensured, cleared, cfg, now, messagesTable, rateLimitsTable,
                    chatsTable, scheduled, handler, rateLog >>

\* the catch block: the apology; its throw ends the job with an error
SendApology(ok) ==
    /\ job.stage = "send_apology"
    /\ telegramCalls' =
            Append(telegramCalls,
                   sendMessage(job.args.chatId, ApologyText,
                               job.args.messageId, job.args.messageThreadId, ok))
    /\ job' = [job EXCEPT !.stage = IF ok THEN "finished" ELSE "failed"]
    /\ UNCHANGED << gatewayVars, pruned, parked, ensured, cleared, cfg, now, messagesTable, rateLimitsTable,
                    chatsTable, scheduled, handler, rateLog >>

JobNext ==
    \/ \E c \in JobConfigs : Deploy(c)
    \/ \E request \in JobRequests : Deliver(request)
    \/ CheckRateLimit
    \/ StoreUser
    \/ EnsureChat
    \/ Schedule
    \/ StartJob
    \/ \E sent \in BOOLEAN : SendTyping(sent)
    \/ GetChat
    \/ GenerateForJob
    \/ \E r \in ConcClaudeAnswers : ReceiveClaude(r)
    \/ \E r \in JobTurns : ReceiveOpenAICompatible(r)
    \/ \E r \in JobTurns : ReceiveMoonshotTurn(r)
    \/ AfterGenerate
    \/ StoreAssistant
    \/ \E ok \in BOOLEAN : SendReply(ok)
    \/ \E ok \in BOOLEAN : SendApology(ok)

JobSpec == Init /\ [][JobNext]_vars

\* ------------------------------------------ specification: checkRateLimit
\* Largest number of checkRateLimit calls in one behaviour.
MaxChecks == 4

\* The deployments of this specification: one or two messages a minute.
RateConfigs ==
    { [TestConfig EXCEPT !.RATE_LIMIT_PER_MINUTE = m] : m \in {<<"1">>, <<"2">>} }

\* The (chatId, userId) pairs tried: two users of one chat, one user in two
\* chats.
RatePairs == { <<100, 1>>, <<100, 2>>, <<200, 1>> }

\* The values of Date.now() tried: the start, the last millisecond before the
\* window is over, the instant it is over, and the two after.
Instants == {0, WindowMs - 1, WindowMs, WindowMs + 1, WindowMs + 2}

\* Date.now() moves on.
Tick(t) ==
    /\ t > now
    /\ now' = t
    /\ UNCHANGED << gatewayVars, pruned, parked, ensured, cleared, cfg, messagesTable, rateLimitsTable, chatsTable,
                    telegramCalls, scheduled, handler, rateLog, job >>

\* the checkRateLimit mutation, run with the deployment's limit
CallCheckRateLimit(chatId, userId) ==
    /\ cfg.deployed
    /\ Len(rateLog) < MaxChecks
    /\ LET result == checkRateLimit(rateLimitsTable, chatId, userId, MaxPerMinute, now)
       IN /\ ~result.threw
          /\ rateLimitsTable' = result.table
          /\ rateLog' = Append(rateLog,
                               RateLogEntry(chatId, userId, MaxPerMinute, now, result))
    /\ UNCHANGED << gatewayVars, pruned, parked, ensured, cleared, cfg, now, messagesTable, chatsTable,
                    telegramCalls, scheduled, handler, job >>

RateNext ==
    \/ \E c \in RateConfigs : Deploy(c)
    \/ \E t \in Instants : Tick(t)
    \/ \E pair \in RatePairs : CallCheckRateLimit(pair[1], pair[2])

RateSpec == Init /\ [][RateNext]_vars

\* --------------------------------------------- specification: the history
\* Largest number of store calls in one behaviour.
MaxStores == 4
\* Largest number of clearChat calls in one behaviour.
MaxClears == 1

\* The chats and threads tried: chat 100 outside topics and in topic 42, and
\* chat 200.
Threads == { <<100, undefined>>, <<100, 42>>, <<200, undefined>> }

\* the rows the clearChat calls of a log have deleted
RECURSIVE DeletedRows(_)
DeletedRows(log) ==
    IF log = <<>> THEN 0
    ELSE Len(ByChat(Head(log).found, Head(log).chatId, Head(log).messageThreadId))
            + DeletedRows(Tail(log))

\* the store mutation, called for a user's or the assistant's message
CallStore(chatId, messageThreadId, role) ==
    /\ Len(messagesTable) + DeletedRows(cleared) < MaxStores
    /\ messagesTable' =
            store(messagesTable,
                  [chatId |-> chatId, messageThreadId |-> messageThreadId,
                   userId |-> IF role = "user" THEN Alice.id ELSE undefined,
                   userName |-> IF role = "user" THEN Alice.first_name ELSE EnvUnset,
                   role |-> role, text |-> ChatterText,
                   telegramMessageId |-> IF role = "user" THEN MessageId ELSE undefined],
                  now)
    /\ UNCHANGED << gatewayVars, pruned, parked, ensured, cleared, cfg, now, rateLimitsTable, chatsTable,
                    telegramCalls, scheduled, handler, rateLog, job >>

\* the clearChat mutation
CallClearChat(chatId, messageThreadId) ==
    /\ Len(cleared) < MaxClears
    /\ messagesTable' = clearChat(messagesTable, chatId, messageThreadId)
    /\ cleared' = Append(cleared, [chatId |-> chatId,
                                   messageThreadId |-> messageThreadId,
                                   found |-> messagesTable])
    /\ UNCHANGED << gatewayVars, pruned, parked, ensured, cfg, now, rateLimitsTable, chatsTable,
                    telegramCalls, scheduled, handler, rateLog, job >>

StoreNext ==
    \/ \E thread \in Threads, role \in {"user", "assistant"} :
            CallStore(thread[1], thread[2], role)
    \/ \E thread \in Threads : CallClearChat(thread[1], thread[2])

StoreSpec == Init /\ [][StoreNext]_vars

\* --------------------------------------------- specification: the pruning
\* Largest number of deleteOldMessages runs in one behaviour.
MaxPrunes == 1

\* The deployments of this specification: MAX_RETAINED_MESSAGES unset, and
\* set to keep two messages.
PruneConfigs ==
    { [TestConfig EXCEPT !.MAX_RETAINED_MESSAGES = m] : m \in {EnvUnset, <<"2">>} }

\* The values of Date.now() tried.
PruneInstants == {1}

\* Number(process.env.MAX_RETAINED_MESSAGES ?? "100")
MaxRetained ==
    StringToNumber(OrDefault(cfg.MAX_RETAINED_MESSAGES, <<"1", "0", "0">>))

\* the deleteOldMessages mutation, run by the daily cron job
CallDeleteOldMessages ==
    /\ cfg.deployed
    /\ Len(pruned) < MaxPrunes
    /\ messagesTable' = deleteOldMessages(messagesTable, MaxRetained)
    /\ pruned' = Append(pruned, [maxRetained |-> MaxRetained, found |-> messagesTable])
    /\ UNCHANGED << gatewayVars, parked, ensured, cleared, cfg, now, rateLimitsTable, chatsTable,
                    telegramCalls, scheduled, handler, rateLog, job >>

PruneNext ==
    \/ \E c \in PruneConfigs : Deploy(c)
    \/ \E t \in PruneInstants : Tick(t)
    \/ \E thread \in Threads : CallStore(thread[1], thread[2], "user")
    \/ CallDeleteOldMessages

PruneSpec == Init /\ [][PruneNext]_vars

\* ------------------------------------------------ specification: the chats
\* Largest number of ensureChat calls in one behaviour.
MaxEnsures == 3

\* The chats tried, and the titles: none (a private chat), the empty string,
\* the group's title and the title it is renamed to.
ChatIds == {100, 200}
ChatTitles == {Null, "", GroupChat.title, "Renamed"}

\* The values of Date.now() tried.
ChatInstants == {1, 2}

\* the ensureChat mutation
CallEnsureChat(chatId, chatTitle) ==
    /\ Len(ensured) < MaxEnsures
    /\ chatsTable' = ensureChat(chatsTable, chatId, chatTitle, now)
    /\ ensured' = Append(ensured,
                         [chatId |-> chatId, chatTitle |-> chatTitle, at |-> now,
                          found |-> chatsTable,
                          returned |-> ensureChatReturns(chatsTable, chatId,
                                                         chatTitle, now)])
    /\ UNCHANGED << gatewayVars, pruned, parked, cleared, cfg, now, messagesTable,
                    rateLimitsTable, telegramCalls, scheduled, handler, rateLog, job >>

ChatNext ==
    \/ \E t \in ChatInstants : Tick(t)
    \/ \E chatId \in ChatIds, chatTitle \in ChatTitles : CallEnsureChat(chatId, chatTitle)

ChatSpec == Init /\ [][ChatNext]_vars

\* ------------------------------ specification: two webhook requests at once
\* The updates of this specification: in the group and outside topics, Alice
\* mentions the bot.
RaceRequests ==
    { r \in JobRequests : r.body.message.message_thread_id = undefined }

\* The values of Date.now() tried: the last instant of the window of a record
\* written at 0, and the first after it.
RaceInstants == {WindowMs, WindowMs + 1}

\* The runtime leaves the handler that is running at its await and goes on
\* with the other request: each mutation and each fetch is one step, and the
\* steps of the two handlers interleave in any order.
Yield ==
    /\ handler # parked
    /\ handler' = parked
    /\ parked' = handler
    /\ UNCHANGED << gatewayVars, pruned, ensured, cleared, cfg, now, messagesTable,
                    rateLimitsTable, chatsTable, telegramCalls, scheduled, rateLog, job >>

RaceNext ==
    \/ \E c \in RateConfigs : Deploy(c)
    \/ \E t \in RaceInstants : Tick(t)
    \/ \E request \in RaceRequests : Deliver(request)
    \/ Yield
    \/ CheckRateLimit
    \/ \E ok \in BOOLEAN : SendTooFast(ok)
    \/ StoreUser
    \/ EnsureChat
    \/ Schedule

RaceSpec == Init /\ [][RaceNext]_vars

\* --------------------------- specification: from the webhook to the answer
\* The deployment of this specification: the variables of the README, ten
\* messages a minute, the provider left to its default and no web search.
FlowConfigs ==
    { [TestConfig EXCEPT !.RATE_LIMIT_PER_MINUTE = EnvUnset] }

\* The updates of this specification: in the group and outside topics, Alice
\* mentions the bot, or resets the chat.
FlowRequests ==
    { r \in WebhookRequests :
        /\ r.header = "s3cret"
        /\ r.body.json /\ r.body.hasMessage
        /\ r.body.message.chat = GroupChat
        /\ r.body.message.from = Alice
        /\ r.body.message.message_thread_id = undefined
        /\ r.body.message.text \in {MentionText, ResetCommand} }

\* The answers of the provider in this specification: a failure and a stop
\* with a text.
FlowTurns ==
    { r \in JobTurns : TurnKind(r) \in {"http_error", "stop"} }

\* Telegram delivers an update while the other request is being handled or
\* after it, MaxDeliveries updates in all.
DeliverBeside(request) ==
    /\ Delivered + (IF parked.stage = "none" THEN 0 ELSE parked.n) < MaxDeliveries
    /\ Deliver(request)

\* Two webhook requests whose steps interleave, and the processMessage jobs
\* they schedule, run by the scheduler at any later moment.
FlowNext ==
    \/ \E c \in FlowConfigs : Deploy(c)
    \/ \E request \in FlowRequests : DeliverBeside(request)
    \/ Yield
    \/ ClearChat
    \/ \E ok \in BOOLEAN : SendCleared(ok)
    \/ CheckRateLimit
    \/ StoreUser
    \/ EnsureChat
    \/ Schedule
    \/ StartJob
    \/ \E sent \in BOOLEAN : SendTyping(sent)
    \/ GetChat
    \/ GenerateForJob
    \/ \E r \in FlowTurns : ReceiveOpenAICompatible(r)
    \/ AfterGenerate
    \/ StoreAssistant
    \/ \E ok \in BOOLEAN : SendReply(ok)
    \/ \E ok \in BOOLEAN : SendApology(ok)

FlowSpec == Init /\ [][FlowNext]_vars

\* ---------------------------------------------- specification: the commands
\* The texts of this specification: the three commands, /reset with the name
\* of the bot; two texts that start with / and are no command, one of them
\* with the name of the bot; and a mention.
StartCommand == <<"/", "s", "t", "a", "r", "t">>
UnknownCommand == <<"/", "f", "o", "o", "@", "n", "e", "r", "d", "b", "o", "t">>
LookalikeCommand == <<"/", "h", "e", "l", "p", "m", "e">>
CommandTexts == {StartCommand, HelpCommand, ResetCommand}
OtherSlashTexts == {UnknownCommand, LookalikeCommand}

\* The updates of this specification: Alice, in the group and in her private
\* chat with the bot.
CommandRequests ==
    { [header |-> "s3cret",
       body |-> [json |-> TRUE, hasMessage |-> TRUE,
                 message |-> [chat |-> chat, from |-> Alice, text |-> text,
                              message_id |-> MessageId,
                              message_thread_id |-> undefined]]] :
        chat \in {GroupChat, PrivateChat(1)},
        text \in CommandTexts \cup OtherSlashTexts \cup {MentionText} }

CommandNext ==
    \/ \E c \in RateConfigs : Deploy(c)
    \/ \E request \in CommandRequests : Deliver(request)
    \/ \E ok \in BOOLEAN : SendHelp(ok)
    \/ ClearChat
    \/ \E ok \in BOOLEAN : SendCleared(ok)
    \/ CheckRateLimit
    \/ \E ok \in BOOLEAN : SendTooFast(ok)
    \/ StoreUser
    \/ EnsureChat
    \/ Schedule

CommandSpec == Init /\ [][CommandNext]_vars

\* ------------------------------------------------ vocabulary: the webhook
\* the handler h is handling an update that carries a text
HasText(h) ==
    /\ h.stage # "none"
    /\ h.request.body.json
    /\ h.request.body.hasMessage
    /\ Present(h.request.body.message.text)

\* the request of handler h carries the secret of deployment c, or c has none
PassesSecret(h, c) ==
    \/ c.TELEGRAM_WEBHOOK_SECRET \in {"<undefined>", ""}
    \/ h.request.header = c.TELEGRAM_WEBHOOK_SECRET

\* the sender of h's update is not in ALLOWED_USER_IDS of deployment c
UserBlocked(h, c) ==
    ~ListedIn(h.request.body.message.from.id, OrDefault(c.ALLOWED_USER_IDS, <<>>))

\* the chat of h's update is a group that is not in ALLOWED_GROUP_IDS of c
ChatBlocked(h, c) ==
    /\ h.request.body.message.chat.type # "private"
    /\ ~ListedIn(h.request.body.message.chat.id, OrDefault(c.ALLOWED_GROUP_IDS, <<>>))

\* h's update is one the bot answers: private chat, mention or command
Triggers(h) ==
    LET message == h.request.body.message IN
    \/ message.chat.type = "private"
    \/ includes(message.text, <<"@">> \o BotUsername)
    \/ message.text[1] = "/"

\* nothing the handler can touch changes in this step
NoSideEffect ==
    UNCHANGED << messagesTable, telegramCalls, rateLimitsTable, chatsTable,
                 scheduled, rateLog >>

\* the row that store leaves for h's update, with the text given
UserRow(h, text) ==
    [chatId |-> h.request.body.message.chat.id,
     messageThreadId |-> h.request.body.message.message_thread_id,
     userId |-> h.request.body.message.from.id,
     userName |-> h.userName, role |-> "user", text |-> text,
     telegramMessageId |-> h.request.body.message.message_id,
     timestamp |-> now]

\* C21: when TELEGRAM_WEBHOOK_SECRET is set, a request whose secret header
\* differs from it is answered 401, and no step taken for it stores a message,
\* sends a Telegram message, changes a rate-limit record or schedules
\* processMessage.
C21_WrongSecretIs401 ==
    [][ (/\ handler'.stage # "none"
         /\ cfg'.TELEGRAM_WEBHOOK_SECRET \notin {"<undefined>", ""}
         /\ handler'.request.header # cfg'.TELEGRAM_WEBHOOK_SECRET)
        => /\ handler'.stage = "responded"
           /\ handler'.status = 401
           /\ NoSideEffect ]_vars

\* A request with a wrong secret that carries a mention from an allowed user
\* in an allowed group has been answered 401, after a first request was served.
C21_Witness ==
    /\ handler.stage = "responded"
    /\ handler.status = 401
    /\ handler.n = 2
    /\ handler.request.header = "wrong"
    /\ handler.request.body.json
    /\ handler.request.body.hasMessage
    /\ handler.request.body.message.text = MentionText
    /\ handler.request.body.message.chat = GroupChat
    /\ handler.request.body.message.from = Alice
    /\ Len(scheduled) = 1

\* C22: an update with a text whose sender is not in ALLOWED_USER_IDS, or whose
\* chat is a group not in ALLOWED_GROUP_IDS, is answered 200 and no step taken
\* for it stores a message, sends a reply, touches a rate-limit record or
\* schedules processMessage; with an empty ALLOWED_USER_IDS that is every sender.
C22_BlockedChangesNothing ==
    [][ (/\ HasText(handler')
         /\ PassesSecret(handler', cfg')
         /\ UserBlocked(handler', cfg') \/ ChatBlocked(handler', cfg'))
        => /\ handler'.stage = "responded"
           /\ handler'.status = 200
           /\ NoSideEffect ]_vars

\* With an empty ALLOWED_USER_IDS, a mention from Alice in the group has been
\* answered 200 and nothing was stored, sent or scheduled.
C22_Witness ==
    /\ handler.stage = "responded"
    /\ handler.status = 200
    /\ cfg.ALLOWED_USER_IDS = <<>>
    /\ HasText(handler)
    /\ PassesSecret(handler, cfg)
    /\ handler.request.body.message.text = MentionText
    /\ handler.request.body.message.from = Alice
    /\ messagesTable = <<>>
    /\ telegramCalls = <<>>
    /\ scheduled = <<>>
    /\ rateLimitsTable = {}

\* C23: an allowed update in a group, with no mention and no command, is stored
\* once as a user message with its original text before it is answered 200,
\* and no step taken for it checks the rate limit, sends a reply or schedules
\* processMessage.
C23_ContextIsStoredOnly ==
    [][ (/\ HasText(handler')
         /\ PassesSecret(handler', cfg')
         /\ ~UserBlocked(handler', cfg')
         /\ ~ChatBlocked(handler', cfg')
         /\ ~Triggers(handler'))
        => /\ UNCHANGED << telegramCalls, rateLimitsTable, rateLog, scheduled >>
           /\ \/ /\ handler'.stage = "store_context"
                 /\ messagesTable' = messagesTable
              \/ /\ handler.stage = "store_context"
                 /\ handler'.stage = "responded"
                 /\ handler'.status = 200
                 /\ messagesTable' =
                        Append(messagesTable,
                               UserRow(handler', handler'.request.body.message.text)) ]_vars

\* Alice's chatter in the group has been stored as the only message, and the
\* request answered 200.
C23_Witness ==
    /\ handler.stage = "responded"
    /\ handler.status = 200
    /\ HasText(handler)
    /\ handler.request.body.message.text = ChatterText
    /\ handler.request.body.message.chat = GroupChat
    /\ Len(messagesTable) = 1
    /\ messagesTable[1].text = ChatterText
    /\ messagesTable[1].role = "user"
    /\ rateLog = <<>>

\* C24: when checkRateLimit denies the handler's message, the handler's next
\* step sends the "too fast" text as a reply to that message and answers the
\* request; neither step stores a message or schedules processMessage.
C24_DeniedStops ==
    [][ /\ (/\ handler.stage = "check_rate_limit"
            /\ rateLog' # rateLog
            /\ ~rateLog'[Len(rateLog')].allowed)
           => /\ handler'.stage = "send_too_fast"
              /\ UNCHANGED << messagesTable, scheduled, telegramCalls >>
        /\ (handler.stage = "send_too_fast")
           => /\ handler'.stage = "responded"
              /\ UNCHANGED << messagesTable, scheduled >>
              /\ \E ok \in BOOLEAN :
                    telegramCalls' =
                        Append(telegramCalls,
                               [chat_id |-> handler.chatId, text |-> TooFastText,
                                message_thread_id |->
                                    IF handler.messageThreadId \in {undefined, 0}
                                    THEN undefined ELSE handler.messageThreadId,
                                reply_parameters |-> handler.messageId,
                                ok |-> ok]) ]_vars

\* Alice's second mention within the minute was denied: the "too fast" reply
\* is the only message sent, one message is stored and one job scheduled, both
\* for her first mention.
C24_Witness ==
    /\ handler.stage = "responded"
    /\ handler.n = 2
    /\ Len(rateLog) = 2
    /\ ~rateLog[2].allowed
    /\ Len(telegramCalls) = 1
    /\ telegramCalls[1].text = TooFastText
    /\ telegramCalls[1].reply_parameters = MessageId
    /\ Len(messagesTable) = 1
    /\ Len(scheduled) = 1

\* ------------------------------------------- vocabulary: processMessage
\* the assistant's messages in the history
AssistantRows ==
    LET ByAssistant(row) == row.role = "assistant" IN SelectSeq(messagesTable, ByAssistant)

\* generateResponse has thrown in the job that is running
GenerateFailed ==
    /\ job.stage = "generating"
    /\ pc = "done"
    /\ outcomes[1].kind = "error"

\* C25: when generateResponse throws inside processMessage, the job's next
\* step is the catch block: it stores no assistant message and sends nothing
\* but the apology, which goes out as a reply to the triggering message, in
\* its thread.
C25_FailureApologises ==
    [][ /\ (GenerateFailed /\ job' # job)
           => /\ job'.stage = "send_apology"
              /\ AssistantRows' = AssistantRows
              /\ telegramCalls' = telegramCalls
        /\ (job.stage = "send_apology" /\ job' # job)
           => /\ AssistantRows' = AssistantRows
              /\ job'.stage \in {"finished", "failed"}
              /\ Len(telegramCalls') = Len(telegramCalls) + 1
              /\ telegramCalls'[Len(telegramCalls')].text = ApologyText
              /\ telegramCalls'[Len(telegramCalls')].chat_id = job.args.chatId
              /\ telegramCalls'[Len(telegramCalls')].reply_parameters = job.args.messageId
              /\ telegramCalls'[Len(telegramCalls')].message_thread_id
                    = (IF job.args.messageThreadId \in {undefined, 0}
                       THEN undefined ELSE job.args.messageThreadId) ]_vars

\* The provider answered status 500 to the job of Alice's mention: the history
\* holds her message and no assistant message, and the apology is the only
\* message sent, as a reply to hers.
C25_Witness ==
    /\ job.stage = "finished"
    /\ job.k = 1
    /\ pc = "idle"
    /\ Len(outcomes) = 1
    /\ outcomes[1] = HttpError(500)
    /\ Len(messagesTable) = 1
    /\ messagesTable[1].role = "user"
    /\ AssistantRows = <<>>
    /\ Len(telegramCalls) = 1
    /\ telegramCalls[1].text = ApologyText
    /\ telegramCalls[1].reply_parameters = MessageId
    /\ telegramCalls[1].ok

\* ------------------------------------------- vocabulary: the rate limiter
\* the calls of the log made for one (chatId, userId) pair
CallsOf(chatId, userId) ==
    LET ForPair(e) == e.chatId = chatId /\ e.userId = userId
    IN SelectSeq(rateLog, ForPair)

\* the answers checkRateLimit gives to these calls when they are the only
\* calls ever made, starting from the table given
RECURSIVE AnswersAlone(_, _)
AnswersAlone(calls, table) ==
    IF calls = <<>> THEN <<>>
    ELSE LET e == Head(calls)
             outcome == checkRateLimit(table, e.chatId, e.userId, e.maxPerMinute, e.at)
         IN <<outcome.allowed>> \o AnswersAlone(Tail(calls), outcome.table)

\* the answers these calls were given
Answers(calls) == [k \in 1..Len(calls) |-> calls[k].allowed]

\* the allowed calls of one pair that fall in the interval [from, from + length)
AllowedWithin(chatId, userId, from, length) ==
    { k \in 1..Len(rateLog) :
        /\ rateLog[k].chatId = chatId /\ rateLog[k].userId = userId
        /\ rateLog[k].allowed
        /\ from <= rateLog[k].at /\ rateLog[k].at < from + length }

\* C26: a call is denied exactly when a record exists for the pair, no more
\* than windowMs have passed since its windowStart and its count is at least
\* maxPerMinute; a denied call leaves the record as it found it.
C26_DeniedExactly ==
    \A k \in 1..Len(rateLog) :
        LET e == rateLog[k] IN
        /\ ~e.allowed <=> /\ e.existing # NoRecord
                          /\ e.at - e.existing.windowStart <= WindowMs
                          /\ e.existing.count >= e.maxPerMinute
        /\ ~e.allowed => e.left = e.existing

\* One pair is denied twice, at two different instants of its window, and
\* the second call finds the record the first one found.
C26_Witness ==
    \E j, k \in 1..Len(rateLog) :
        /\ j < k
        /\ rateLog[j].chatId = rateLog[k].chatId
        /\ rateLog[j].userId = rateLog[k].userId
        /\ ~rateLog[j].allowed /\ ~rateLog[k].allowed
        /\ rateLog[j].at < rateLog[k].at
        /\ rateLog[k].existing = rateLog[j].existing
        /\ rateLog[k].left = rateLog[j].existing

\* C27: a call that finds a record resets it to {windowStart: now, count: 1},
\* and is allowed, when more than windowMs have passed since windowStart; up to
\* and including windowMs the window stays, and a call at the limit is denied.
C27_ResetsAfterWindow ==
    \A k \in 1..Len(rateLog) :
        LET e == rateLog[k] IN
        e.existing # NoRecord =>
            /\ e.at - e.existing.windowStart > WindowMs
                => /\ e.allowed
                   /\ e.left = [windowStart |-> e.at, count |-> 1]
            /\ e.at - e.existing.windowStart <= WindowMs
                => /\ e.left.windowStart = e.existing.windowStart
                   /\ e.existing.count >= e.maxPerMinute => ~e.allowed

\* A pair at its limit is denied exactly windowMs after its windowStart, and
\* allowed one millisecond later, with its record reset.
C27_Witness ==
    \E j, k \in 1..Len(rateLog) :
        /\ j < k
        /\ rateLog[j].chatId = rateLog[k].chatId
        /\ rateLog[j].userId = rateLog[k].userId
        /\ rateLog[j].existing # NoRecord
        /\ rateLog[k].existing # NoRecord
        /\ rateLog[j].at - rateLog[j].existing.windowStart = WindowMs
        /\ ~rateLog[j].allowed
        /\ rateLog[k].at - rateLog[k].existing.windowStart = WindowMs + 1
        /\ rateLog[k].allowed
        /\ rateLog[k].left = [windowStart |-> rateLog[k].at, count |-> 1]

\* C28: a call of checkRateLimit for one pair leaves the records of the other
\* pairs as they are, and every pair is given the answers it would be given
\* if no other pair ever called.
C28_PairsAreIndependent ==
    /\ [][ \A pair \in RatePairs :
             (/\ rateLog' # rateLog
              /\ <<rateLog'[Len(rateLog')].chatId, rateLog'[Len(rateLog')].userId>> # pair)
             => { row \in rateLimitsTable' : row.chatId = pair[1] /\ row.userId = pair[2] }
                = { row \in rateLimitsTable : row.chatId = pair[1] /\ row.userId = pair[2] }
         ]_vars
    /\ [](\A pair \in RatePairs :
             Answers(CallsOf(pair[1], pair[2]))
                = AnswersAlone(CallsOf(pair[1], pair[2]), {}))

\* User 1 has used up the limit in chat 100 and is denied there; after that,
\* user 2 is allowed in chat 100 and user 1 is allowed in chat 200.
C28_Witness ==
    \E j, k, m \in 1..Len(rateLog) :
        /\ j < k /\ k < m
        /\ rateLog[j].chatId = 100 /\ rateLog[j].userId = 1 /\ ~rateLog[j].allowed
        /\ rateLog[k].chatId = 100 /\ rateLog[k].userId = 2 /\ rateLog[k].allowed
        /\ rateLog[m].chatId = 200 /\ rateLog[m].userId = 1 /\ rateLog[m].allowed
        /\ rateLog[m].at = rateLog[j].at

\* C29: for one pair, no interval of length windowMs holds more than
\* maxPerMinute allowed calls.
C29_SlidingWindow ==
    \A j \in 1..Len(rateLog) :
        Cardinality(AllowedWithin(rateLog[j].chatId, rateLog[j].userId,
                                  rateLog[j].at, WindowMs))
            <= rateLog[j].maxPerMinute

\* ------------------------------------------------ vocabulary: the history
\* the rows of a table that belong to a chat and thread, in order
RowsOf(table, chatId, messageThreadId) ==
    LET Own(row) == row.chatId = chatId /\ row.messageThreadId = messageThreadId
    IN SelectSeq(table, Own)

\* the rows of a table that belong to any other chat or thread, in order
RowsOutside(table, chatId, messageThreadId) ==
    LET Foreign(row) == row.chatId # chatId \/ row.messageThreadId # messageThreadId
    IN SelectSeq(table, Foreign)

\* C30: a call of clearChat leaves exactly the messages of the other chats and
\* of the other threads of the chat, unchanged and in their order, and after
\* it getRecent for the cleared chat and thread returns the empty list.
C30_ClearChatClearsOneThread ==
    [][ cleared' # cleared =>
            LET call == cleared'[Len(cleared')] IN
            /\ call.found = messagesTable
            /\ messagesTable' =
                    RowsOutside(messagesTable, call.chatId, call.messageThreadId)
            /\ \A thread \in Threads :
                    thread # <<call.chatId, call.messageThreadId>>
                    => RowsOf(messagesTable', thread[1], thread[2])
                        = RowsOf(messagesTable, thread[1], thread[2])
            /\ \A limit \in {1, 30} :
                    getRecent(messagesTable', call.chatId, call.messageThreadId, limit)
                        = <<>> ]_vars

\* clearChat found two messages of chat 100 outside topics, one of its topic
\* 42 and one of chat 200, and left the last two.
C30_Witness ==
    /\ cleared # <<>>
    /\ cleared[1].chatId = 100
    /\ cleared[1].messageThreadId = undefined
    /\ Len(RowsOf(cleared[1].found, 100, undefined)) = 2
    /\ Len(RowsOf(cleared[1].found, 100, 42)) = 1
    /\ Len(RowsOf(cleared[1].found, 200, undefined)) = 1
    /\ Len(messagesTable) = 2
    /\ messagesTable = RowsOutside(cleared[1].found, 100, undefined)
    /\ getRecent(messagesTable, 100, undefined, 30) = <<>>

\* ------------------------------------------------ vocabulary: the pruning
\* the smaller of two numbers
Smaller(a, b) == IF a <= b THEN a ELSE b

\* the rows at the positions kept of a list of rows, in order
RowsAt(rows, positions) ==
    LET Chosen(k) == k \in positions
        chosen == SelectSeq([k \in 1..Len(rows) |-> k], Chosen)
    IN [k \in 1..Len(chosen) |-> rows[chosen[k]]]

\* C31: after a run of deleteOldMessages every (chatId, messageThreadId)
\* group holds exactly min(n, MAX_RETAINED_MESSAGES) messages, n being its
\* size before the run; the messages kept are ones of the group with the
\* greatest timestamps (no deleted message is newer than a kept one); a group
\* is pruned as it would be were it alone in the table, and a group within
\* the limit is unchanged.
C31_PruneKeepsNewest ==
    [][ pruned' # pruned =>
            LET run == pruned'[Len(pruned')] IN
            /\ run.found = messagesTable
            /\ run.maxRetained = MaxRetained
            /\ \A thread \in Threads :
                    LET before == RowsOf(messagesTable, thread[1], thread[2])
                        after == RowsOf(messagesTable', thread[1], thread[2])
                        n == Len(before)
                    IN /\ Len(after) = Smaller(n, MaxRetained)
                       /\ \E positions \in SUBSET (1..n) :
                            /\ after = RowsAt(before, positions)
                            /\ \A k \in positions, j \in (1..n) \ positions :
                                    before[k].timestamp >= before[j].timestamp
                       /\ after = deleteOldMessages(before, MaxRetained)
                       /\ n <= MaxRetained => after = before
            /\ Len(messagesTable') =
                    Len(RowsOf(messagesTable', 100, undefined))
                        + Len(RowsOf(messagesTable', 100, 42))
                        + Len(RowsOf(messagesTable', 200, undefined)) ]_vars

\* With two messages kept, a run found three messages of chat 100 written at
\* two instants and one of chat 200: it deleted the oldest of chat 100 and
\* left chat 200 alone.
C31_Witness ==
    /\ pruned # <<>>
    /\ pruned[1].maxRetained = 2
    /\ Len(RowsOf(pruned[1].found, 100, undefined)) = 3
    /\ RowsOf(pruned[1].found, 100, undefined)[1].timestamp
            < RowsOf(pruned[1].found, 100, undefined)[2].timestamp
    /\ Len(RowsOf(pruned[1].found, 200, undefined)) = 1
    /\ messagesTable = deleteOldMessages(pruned[1].found, 2)
    /\ RowsOf(messagesTable, 100, undefined)
            = SubSeq(RowsOf(pruned[1].found, 100, undefined), 2, 3)
    /\ RowsOf(messagesTable, 200, undefined) = RowsOf(pruned[1].found, 200, undefined)

\* ------------------------------------------------- vocabulary: the chats
\* the chat records of a table for a chatId
ChatRows(table, chatId) == { row \in table : row.chatId = chatId }

\* C32: after any sequence of ensureChat calls there is at most one chat
\* record per chatId. The first call for a chatId creates the record with
\* enabled true and returns it; a later call creates nothing, returns the
\* record that is there, and changes nothing but its chatTitle, which it
\* changes exactly when a title is supplied that is not empty and differs.
C32_OneChatRecord ==
    /\ [](\A chatId \in ChatIds : Cardinality(ChatRows(chatsTable, chatId)) <= 1)
    /\ [][ ensured' # ensured =>
            LET call == ensured'[Len(ensured')]
                rows == ChatRows(chatsTable, call.chatId)
            IN /\ call.found = chatsTable
               /\ \A other \in ChatIds \ {call.chatId} :
                        ChatRows(chatsTable', other) = ChatRows(chatsTable, other)
               /\ rows = {}
                    => /\ ChatRows(chatsTable', call.chatId) = {call.returned}
                       /\ call.returned.enabled = TRUE
                       /\ call.returned.chatId = call.chatId
                       /\ call.returned.chatTitle = call.chatTitle
                       /\ call.returned.createdAt = now
               /\ rows # {}
                    => /\ rows = {call.returned}
                       /\ \E title \in ChatTitles :
                            /\ ChatRows(chatsTable', call.chatId)
                                    = {[call.returned EXCEPT !.chatTitle = title]}
                            /\ title # call.returned.chatTitle
                                <=> /\ call.chatTitle \notin {Null, ""}
                                    /\ call.chatTitle # call.returned.chatTitle
                            /\ title # call.returned.chatTitle => title = call.chatTitle
       ]_vars

\* Chat 100 was created with its title, a call without a title and a call
\* with the empty title left it alone, and a call with another title renamed
\* it: one record, created at the first call's time.
C32_Witness ==
    /\ Len(ensured) = 3
    /\ \A k \in 1..3 : ensured[k].chatId = 100
    /\ ensured[1].chatTitle = GroupChat.title
    /\ ensured[1].at = 1
    /\ ensured[2].chatTitle = ""
    /\ ensured[2].at = 2
    /\ ensured[2].found = {ensured[1].returned}
    /\ ensured[3].chatTitle = "Renamed"
    /\ ensured[3].found = ensured[2].found
    /\ ensured[3].returned = ensured[1].returned
    /\ chatsTable = {[chatId |-> 100, chatTitle |-> "Renamed", enabled |-> TRUE,
                      createdAt |-> 1]}

\* ------------------------------------------------- claims: the loop, again
\* C33: in every reachable state of a generate call that runs the tool-call
\* loop, at most five (MAX_TOOL_ITERATIONS) HTTP requests have been issued,
\* whatever the provider answered; and the call has failed with
\* MaxIterationsExceeded only after exactly five requests, answered by five
\* turns that all took the tool_calls path.
C33_AtMostFiveRequests ==
    InLoop
        => /\ Len(fetchCalls) <= MAX_TOOL_ITERATIONS
           /\ Len(responses) <= Len(fetchCalls)
           /\ Failed("MaxIterationsExceeded")
                => /\ Len(fetchCalls) = 5
                   /\ Len(responses) = 5
                   /\ AllRequestTools(responses)

\* The loop failed at the cap after five turns, one of which carried an
\* empty list of invocations and one the longest list.
C33_Witness ==
    /\ InLoop
    /\ Failed("MaxIterationsExceeded")
    /\ Len(fetchCalls) = 5
    /\ \E k \in 1..5 : Invocations(responses[k]) = <<>>
    /\ \E k \in 1..5 : Len(Invocations(responses[k])) = MaxToolCalls

\* the message list of the request body sent on turn k
SentOn(k) == fetchCalls[k].body.messages

\* one list is the beginning of another
BeginsWith(long, short) ==
    /\ Len(short) <= Len(long)
    /\ SubSeq(long, 1, Len(short)) = short

\* C34: the transcript of the tool-call loop is append-only: the message list
\* sent on turn k is a prefix of the one sent on turn k + 1; and on every
\* turn the first entry is the system prompt with role system, followed by
\* the caller's messages in their original order.
C34_TranscriptAppendOnly ==
    InLoop
        => \A k \in 1..Len(fetchCalls) :
            /\ SentOn(k)[1] = [role |-> "system", content |-> systemPrompt]
            /\ Len(SentOn(k)) >= 1 + Len(messages)
            /\ \A j \in 1..Len(messages) :
                    SentOn(k)[j + 1] = [role |-> messages[j].role,
                                        content |-> messages[j].content]
            /\ k < Len(fetchCalls) => BeginsWith(SentOn(k + 1), SentOn(k))

\* Three turns were sent for a caller with a history: the second list extends
\* the first by an assistant entry and tool entries, the third extends the
\* second.
C34_Witness ==
    /\ InLoop
    /\ Len(messages) = MaxMessages
    /\ Len(fetchCalls) >= 3
    /\ Len(SentOn(1)) = 1 + MaxMessages
    /\ Len(SentOn(2)) = Len(SentOn(1)) + 1 + MaxToolCalls
    /\ Len(SentOn(3)) > Len(SentOn(2))
    /\ BeginsWith(SentOn(3), SentOn(2))

\* a turn whose stop signal is tool_calls but that carries no tool_calls list
Listless(r) ==
    /\ StopSignal(r) = "tool_calls"
    /\ ~r.choices[1].message.has_tool_calls

\* a tool_calls turn that carries an empty list
EmptyListed(r) ==
    /\ RequestsTools(r)
    /\ Invocations(r) = <<>>

\* C35: a turn whose stop signal is tool_calls but that carries no tool_calls
\* list ends the loop: a result with the turn's text ("" for none) is
\* returned, nothing is appended to the transcript and no further request is
\* sent. A tool_calls turn that carries an empty list loops again: it appends
\* one assistant entry and no tool entry, adds nothing to the search trace,
\* and uses up one of the five iterations (after the fifth the call fails
\* with MaxIterationsExceeded instead of sending a request).
C35_ListlessEndsEmptyListLoops ==
    [][ (InLoop /\ pc = "awaiting" /\ responses' # responses) =>
            LET r == responses'[Len(responses')]
                content == r.choices[1].message.content
            IN /\ Listless(r)
                    => /\ pc' = "done"
                       /\ Len(outcomes') = 1
                       /\ outcomes'[1].kind = "result"
                       /\ outcomes'[1].text = (IF content = Null THEN "" ELSE content)
                       /\ apiMessages' = apiMessages
                       /\ searchQueries' = searchQueries
                       /\ fetchCalls' = fetchCalls
               /\ EmptyListed(r)
                    => /\ apiMessages' =
                            Append(apiMessages,
                                   [role |-> "assistant", content |-> content,
                                    tool_calls |-> <<>>])
                       /\ searchQueries' = searchQueries
                       /\ i' = i + 1
                       /\ IF Len(responses') < MAX_TOOL_ITERATIONS
                          THEN /\ pc' = "awaiting"
                               /\ Len(fetchCalls') = Len(fetchCalls) + 1
                               /\ fetchCalls'[Len(fetchCalls')].body.messages = apiMessages'
                          ELSE /\ pc' = "done"
                               /\ fetchCalls' = fetchCalls
                               /\ outcomes' = <<MaxIterationsError>> ]_vars

\* A turn with an empty list was followed by a second request, whose answer,
\* tool_calls without a list and with a text, ended the call with that text.
C35_Witness ==
    /\ InLoop
    /\ Returned
    /\ Len(responses) = 2
    /\ EmptyListed(responses[1])
    /\ Listless(responses[2])
    /\ outcomes[1].text = "answer"
    /\ Len(fetchCalls) = 2
    /\ Len(SentOn(2)) = Len(SentOn(1)) + 1
    /\ apiMessages = SentOn(2)
    /\ searchQueries = <<>>

\* --------------------------------- vocabulary: two webhook requests at once
\* a webhook request that is between two of its awaits
InFlight(h) == h.stage \notin {"none", "responded"}

\* the calls of checkRateLimit for a pair that were allowed at or after an
\* instant
AllowedSince(chatId, userId, start) ==
    { k \in 1..Len(rateLog) :
        /\ rateLog[k].chatId = chatId /\ rateLog[k].userId = userId
        /\ rateLog[k].allowed
        /\ rateLog[k].at >= start }

\* C36: for one (chatId, userId) pair and a fixed maxPerMinute >= 1, after
\* any sequence of checkRateLimit calls made by webhook handlers that
\* interleave in any order (each mutation being atomic), there is at most one
\* rate-limit record for the pair, its count is between 1 and maxPerMinute,
\* and its count is the number of calls allowed since its windowStart.
C36_OneRecordCountsAllowed ==
    LET rows == RateRows(rateLimitsTable, GroupChat.id, Alice.id) IN
    /\ Cardinality(rows) <= 1
    /\ \A row \in rows :
        /\ 1 <= row.count
        /\ row.count <= MaxPerMinute
        /\ row.count = Cardinality(AllowedSince(GroupChat.id, Alice.id, row.windowStart))

\* With two messages a minute, three requests were checked while another was
\* in flight: the third was denied and is about to be told so, the other
\* handler is still between its check and its store, and the record counts
\* two.
C36_Witness ==
    /\ cfg.deployed
    /\ MaxPerMinute = 2
    /\ Len(rateLog) = 3
    /\ ~rateLog[3].allowed
    /\ handler.stage = "send_too_fast"
    /\ parked.stage = "store_user"
    /\ \E row \in rateLimitsTable : row.count = 2 /\ row.windowStart = 0
    /\ Cardinality(rateLimitsTable) = 1

\* ------------------------------ vocabulary: from the webhook to the answer
\* the rows of the history that hold the message a job was scheduled for
TriggeringRows(table, args) ==
    { k \in 1..Len(table) :
        /\ table[k].chatId = args.chatId
        /\ table[k].messageThreadId = args.messageThreadId
        /\ table[k].role = "user"
        /\ table[k].userId = args.userId
        /\ table[k].telegramMessageId = args.messageId
        /\ table[k].text = args.messageText }

\* processMessage reads the recent history in this step
ReadsHistory == job.stage = "get_recent" /\ job'.stage = "generating"

\* C37: for a triggering, allowed, non-command message that passes the rate
\* limit, the handler stores the user's message, mention stripped, before it
\* schedules processMessage, and it schedules processMessage exactly once
\* (the store is seen at the scheduling step as long as nothing was cleared;
\* one job for each message let through, once the handlers have responded);
\* so when processMessage reads the recent history, the triggering message is
\* in the store, however the other webhook deliveries interleave.
C37_TriggerIsStoredWhenRead ==
    /\ [][ /\ scheduled' # scheduled
                => /\ Len(scheduled') = Len(scheduled) + 1
                   /\ scheduled'[Len(scheduled')].messageText
                        = stripMention(MentionText, BotUsername)
                   /\ cleared = <<>>
                        => TriggeringRows(messagesTable, scheduled'[Len(scheduled')]) # {}
           /\ ReadsHistory => TriggeringRows(messagesTable, job.args) # {} ]_vars
    /\ []((~InFlight(handler) /\ ~InFlight(parked))
            => Len(scheduled)
                = Cardinality({ k \in 1..Len(rateLog) : rateLog[k].allowed }))

\* ------------------------------------------------ vocabulary: the commands
\* the handler is between two awaits of a request whose text is one of texts
Handling(texts) == InFlight(handler) /\ handler.messageText \in texts

\* the stages of the handler from the rate limit on
RateLimitedStages ==
    {"check_rate_limit", "send_too_fast", "store_user", "ensure_chat", "schedule"}

\* C38: /start, /help and /reset are answered before the rate-limit check:
\* the handler of such a command never reaches the rate limit, no step of it
\* creates or changes a rate-limit record, stores a message or schedules
\* processMessage, and it responds after sending the help text or after
\* clearing the thread and sending the confirmation. Any other text that
\* starts with / goes the way of a mention: the rate limit is checked for the
\* sender, and when it allows, the text is stored without the mention and
\* processMessage is scheduled for it.
C38_CommandsBeforeRateLimit ==
    /\ [](Handling(CommandTexts)
            => /\ handler.stage \in {"send_help", "clear_chat", "send_cleared"}
               /\ handler.stage = "send_help"
                    <=> handler.messageText \in {StartCommand, HelpCommand})
    /\ [](Handling(OtherSlashTexts \cup {MentionText})
            => handler.stage \in RateLimitedStages)
    /\ [][ /\ Handling(CommandTexts)
                => /\ UNCHANGED << rateLimitsTable, rateLog, scheduled, chatsTable >>
                   /\ Len(messagesTable') <= Len(messagesTable)
                   /\ \A k \in 1..Len(messagesTable') :
                            messagesTable'[k].text \notin CommandTexts
                   /\ Len(telegramCalls') > Len(telegramCalls)
                        => /\ telegramCalls'[Len(telegramCalls')].text
                                = (IF handler.stage = "send_help" THEN HelpText
                                   ELSE ClearedText)
                           /\ handler'.stage = "responded"
           /\ Handling(OtherSlashTexts \cup {MentionText})
                => /\ handler.stage = "check_rate_limit"
                        => /\ Len(rateLog') = Len(rateLog) + 1
                           /\ rateLog'[Len(rateLog')].chatId = handler.chatId
                           /\ rateLog'[Len(rateLog')].userId = handler.userId
                           /\ handler'.stage =
                                (IF rateLog'[Len(rateLog')].allowed THEN "store_user"
                                 ELSE "send_too_fast")
                   /\ handler.stage = "store_user"
                        => /\ Len(messagesTable') = Len(messagesTable) + 1
                           /\ messagesTable'[Len(messagesTable')].text
                                = stripMention(handler.messageText, BotUsername)
                           /\ handler'.stage = "ensure_chat"
                   /\ handler.stage = "ensure_chat" => handler'.stage = "schedule"
                   /\ handler.stage = "schedule"
                        => /\ Len(scheduled') = Len(scheduled) + 1
                           /\ scheduled'[Len(scheduled')].messageText
                                = stripMention(handler.messageText, BotUsername)
                           /\ handler'.stage = "responded" ]_vars

\* With one message a minute, /foo@nerdbot used up the limit and was stored
\* as /foo and scheduled; the /reset@nerdbot that followed was answered all
\* the same: the thread is empty, the confirmation is sent, and the record of
\* the rate limit still counts one.
C38_Witness ==
    /\ cfg.deployed
    /\ MaxPerMinute = 1
    /\ Len(scheduled) = 1
    /\ scheduled[1].messageText = <<"/", "f", "o", "o">>
    /\ Len(cleared) = 1
    /\ Len(cleared[1].found) = 1
    /\ cleared[1].found[1].text = <<"/", "f", "o", "o">>
    /\ messagesTable = <<>>
    /\ handler.stage = "responded"
    /\ handler.status = 200
    /\ handler.messageText = ResetCommand
    /\ Len(telegramCalls) = 1
    /\ telegramCalls[1].text = ClearedText
    /\ Len(rateLog) = 1
    /\ \A row \in rateLimitsTable : row.count = 1

\* ------------------------------------------- claims: processMessage, again
\* the sendMessage calls Telegram answered with success
Delivered200 == { k \in 1..Len(telegramCalls) : telegramCalls[k].ok }

\* C39: in one processMessage invocation at most one message is delivered
\* with success, the AI reply or the apology, never both: a send that
\* succeeds ends the invocation, an invocation that has ended sends nothing,
\* and no more messages are delivered than invocations were started. The
\* assistant's message is stored before the AI reply is sent, so when that
\* send fails the message stays stored although the reply was not delivered
\* (the invocation goes on to the apology).
C39_OneDeliveryStoredFirst ==
    /\ [](Cardinality(Delivered200) <= Started)
    /\ [][ /\ telegramCalls' # telegramCalls
                => LET call == telegramCalls'[Len(telegramCalls')] IN
                   /\ Len(telegramCalls') = Len(telegramCalls) + 1
                   /\ job.stage \in {"send_reply", "send_apology"}
                   /\ call.text = (IF job.stage = "send_reply" THEN job.responseText
                                   ELSE ApologyText)
                   /\ call.ok => job'.stage = "finished"
                   /\ (job.stage = "send_reply" /\ ~call.ok)
                        => job'.stage = "send_apology"
                   /\ (job.stage = "send_apology" /\ ~call.ok)
                        => job'.stage = "failed"
           /\ job.stage \in {"finished", "failed"}
                => telegramCalls' = telegramCalls
           /\ (job.stage = "send_reply" /\ job' # job)
                => /\ AssistantRows # <<>>
                   /\ AssistantRows[Len(AssistantRows)].text = job.responseText
                   /\ AssistantRows[Len(AssistantRows)].chatId = job.args.chatId
                   /\ AssistantRows[Len(AssistantRows)].messageThreadId
                        = job.args.messageThreadId
                   /\ messagesTable' = messagesTable ]_vars

\* Telegram refused the reply of the first job and took the apology: two
\* calls, one delivered, and the assistant's message, which nobody received,
\* is in the history.
C39_Witness ==
    /\ job.stage = "finished"
    /\ job.k = 1
    /\ Len(telegramCalls) = 2
    /\ ~telegramCalls[1].ok
    /\ telegramCalls[1].text = job.responseText
    /\ telegramCalls[2].ok
    /\ telegramCalls[2].text = ApologyText
    /\ Len(AssistantRows) = 1
    /\ AssistantRows[1].text = job.responseText
    /\ job.responseText # <<>>

====
